---- MODULE Spec2Model ----
(***************************************************************************)
(* RawInputReader (src/main.rs, duplicated verbatim in                     *)
(* src/examples/debug_inline.rs): the incremental segmenter that turns the *)
(* bytes read from stdin into events, together with the part of `run` that *)
(* calls it and the byte-span decoder interpret_bytes.                     *)
(*                                                                         *)
(* Further specifications over the same variables: SpecRun (run up to its  *)
(* return, with the terminal modes it switches) and its fair version       *)
(* FairSpecRun, SpecCsi (the segmenter alone), SpecAlt (segmenter and      *)
(* decoder in a row), SpecTimeout (effective_timeout), SpecDecode          *)
(* (InputEventInfo::from_bytes on one span), SpecDbg (main and parse_next   *)
(* of src/debug_rust_only.rs), SpecTui (TuiApp of src/src/lib.rs), SpecSeg  *)
(* (the segmenter on bytes of every class) and SpecPoll                    *)
(* (duration_to_poll_timeout).                                             *)
(*                                                                         *)
(* Time is counted in milliseconds.  One Tick lets Quantum ms pass.  The   *)
(* reader keeps an Instant (last_byte_at) and only ever looks at           *)
(* last_byte_at.elapsed(), so the model keeps the elapsed time itself; it  *)
(* saturates at FLUSH_TIMEOUT, beyond which the code cannot tell two       *)
(* values apart.                                                           *)
(***************************************************************************)
EXTENDS Integers, Sequences, FiniteSets, TLC

VARIABLES
    d_pc,           \* debug_rust_only: "off" (not running), "poll" (in its loop),
                    \* "done" (main returned Ok), "failed" (main returned Err)
    q,              \* debug_rust_only: the queue of bytes read and not yet parsed
    printed,        \* debug_rust_only: the tokens handed to print_token, in order
    modes,          \* debug_rust_only: the DEC private modes switched on in the terminal
    termios,        \* debug_rust_only: "orig", or "raw" while RawMode holds the tty
    span,           \* a byte span handed to InputEventInfo::from_bytes
    info,           \* <<>>, or <<the InputEventInfo made from span>>
    max_inputs,     \* args.max_inputs
    raw_mode,       \* the terminal is in raw mode (enable_raw_mode / disable_raw_mode)
    mouse_capture,  \* mouse reporting is on (EnableMouseCapture / DisableMouseCapture)
    cursor_hidden,  \* the cursor is hidden (Terminal::hide_cursor / show_cursor)
    nonblocking,    \* O_NONBLOCK of fd 0; the program inherits it and never sets it
    script,         \* the bytes the terminal sends during this run
    sent,           \* how many of them have become readable on the descriptor
    fdq,            \* bytes readable on the descriptor and not yet read (kernel)
    stdin_buf,      \* bytes held by the BufReader inside std::io::Stdin
    buffer,         \* RawInputReader::buffer, the pending bytes
    ready,          \* RawInputReader::ready, the queue of complete events
    last_byte_at,   \* RawInputReader::last_byte_at as <<>> (None) or <<elapsed ms>>
    pc,             \* where the thread is: "loop", "drain", "poll", "read", "tail",
                    \* or that run has returned: "failed" (Err), "done" (Ok)
    poll_timeout_ms,\* poll_next's local of that name, fixed before the wait loop
    waited,         \* ms the current poll() call has been blocked
    intr,           \* number of interrupted system calls so far
    result,         \* what the latest poll_next call returned: "none", "some", "err"
    emitted,        \* history: the events poll_next has returned, in order
    pushed,         \* history: the bytes handed to push_byte, in order
    since_append,   \* history: ms since the latest append to the pending buffer
    head_age,       \* history: ms since the pending buffer became non-empty
    late,           \* history: input was still outstanding when head_age reached the flush timeout
    eff0,           \* history: effective_timeout computed by the poll_next call in progress
    poll_duration,  \* history: the Duration handed to duration_to_poll_timeout, as
                    \* whole seconds and nanoseconds
    requested_ms,   \* history: the timeout that this effective_timeout was computed from
    total_waited,   \* history: ms the poll_next call in progress has been blocked in poll()
    eof,            \* history: a read of the descriptor has returned Ok(0)
    t_pc,           \* TuiApp: "off", "built", "ready" (init returned Ok), "init_failed",
                    \* "restored" (restore returned Ok), "restore_failed"
    viewport,       \* TuiApp::viewport: "Inline", "AltStdout" or "AltStderr"
    capture_mouse,  \* TuiApp::capture_mouse
    hide_cursor,    \* TuiApp::hide_cursor
    enabled,        \* the <<stream, mode>> pairs init_terminal has switched on
    disabled        \* the <<stream, mode>> pairs restore_terminal has switched off

vars == <<t_pc, viewport, capture_mouse, hide_cursor, enabled, disabled, d_pc, q, printed, modes, termios, span, info, max_inputs, raw_mode, mouse_capture, cursor_hidden, nonblocking, script, sent, fdq, stdin_buf, buffer, ready, last_byte_at,
          pc, poll_timeout_ms, waited, intr, result, emitted, pushed,
          since_append, head_age, late, eff0, poll_duration, requested_ms, eof, total_waited>>

dbg == <<d_pc, q, printed, modes, termios>>
tui == <<t_pc, viewport, capture_mouse, hide_cursor, enabled, disabled>>
decoder == <<span, info>>
term == <<raw_mode, mouse_capture, cursor_hidden>>
reader == <<buffer, ready, last_byte_at>>
history == <<emitted, pushed, since_append, head_age, late, eff0, poll_duration, requested_ms, eof, total_waited>>

----------------------------------------------------------------------------
(* Program constants *)

DRAW_TIMEOUT == 100
DEFAULT_MAX_INPUTS == 10
FLUSH_TIMEOUT == 35
ESC == 27
I32_MAX == 2147483647
CSI_LOOKAHEAD == 64

(* Bounds of the model *)

Quantum == 20      \* ms that pass in one Tick
MaxLen == 2        \* every byte string over Alphabet up to this length is a script
MaxIntr == 1       \* interrupted system calls per run

\* ESC '[' 'A' 'O' 0xC3 0xA9
Alphabet == {27, 91, 65, 79, 195, 169}

RECURSIVE Strings(_)
Strings(n) ==
    IF n = 0 THEN {<<>>}
    ELSE LET S == Strings(n - 1)
         IN  S \cup {Append(s, b) : s \in {x \in S : Len(x) = n - 1}, b \in Alphabet}

\* Up, Ctrl-Up, F1 (SS3), the euro sign, an emoji, Alt-e-acute
LongScripts ==
    { <<27, 91, 65>>, <<27, 91, 49, 59, 53, 65>>, <<27, 79, 80>>,
      <<226, 130, 172>>, <<240, 159, 152, 128>>, <<27, 195, 169>> }

Scripts == (Strings(MaxLen) \ {<<>>}) \cup LongScripts

Min(a, b) == IF a <= b THEN a ELSE b

RECURSIVE Flatten(_)
Flatten(ss) == IF ss = <<>> THEN <<>> ELSE Head(ss) \o Flatten(Tail(ss))

Drop(s, n) == SubSeq(s, n + 1, Len(s))
Take(s, n) == SubSeq(s, 1, n)

----------------------------------------------------------------------------
(* Segmentation: pure functions.  Option<usize> is <<>> or <<n>>. *)

\* a bug: every byte from 0x80 up that leads no longer character counts as a
\* two-byte lead, continuation bytes and 0xF8..=0xFF included
utf8_char_width_high2(first_byte) ==
    IF first_byte < 128 THEN 1
    ELSE IF first_byte \div 16 = 14 THEN 3
    ELSE IF first_byte \div 8 = 30 THEN 4
    ELSE 2

\* a bug: the four-byte test shifts by 4, so a four-byte lead counts as three bytes
utf8_char_width_short(first_byte) ==
    IF first_byte < 128 THEN 1
    ELSE IF first_byte \div 32 = 6 THEN 2
    ELSE IF first_byte \div 16 >= 14 THEN 3
    ELSE 1

utf8_char_width(first_byte) ==
    IF first_byte < 128 THEN 1
    ELSE IF first_byte \div 32 = 6 THEN 2
    ELSE IF first_byte \div 16 = 14 THEN 3
    ELSE IF first_byte \div 8 = 30 THEN 4
    ELSE 1

\* a bug: the scan starts at the '[' of the prefix
csi_sequence_length_from_bracket(buf) ==
    IF Len(buf) < 3 THEN <<>>
    ELSE LET hits == {i \in 2..Len(buf) : buf[i] >= 64 /\ buf[i] <= 126}
         IN  IF hits = {} THEN <<>>
             ELSE <<CHOOSE i \in hits : \A j \in hits : i <= j>>

csi_sequence_length(buf) ==
    IF Len(buf) < 3 THEN <<>>
    ELSE LET hits == {i \in 3..Len(buf) : buf[i] >= 64 /\ buf[i] <= 126}
         IN  IF hits = {} THEN <<>>
             ELSE <<CHOOSE i \in hits : \A j \in hits : i <= j>>

\* a bug: ESC 'O' is cut as a three-byte event before its third byte is there
try_extract_event_ss3_eager(buf) ==
    IF buf = <<>> THEN <<>>
    ELSE IF buf[1] = ESC THEN
        IF Len(buf) >= 2 THEN
            IF buf[2] = 91 THEN csi_sequence_length(buf)
            ELSE IF buf[2] = 79 THEN <<3>>
            ELSE IF Len(buf) >= 1 + utf8_char_width(buf[2])
                 THEN <<1 + utf8_char_width(buf[2])>>
                 ELSE <<>>
        ELSE <<>>
    ELSE IF buf[1] >= 128 THEN
        IF Len(buf) >= utf8_char_width(buf[1])
        THEN <<utf8_char_width(buf[1])>>
        ELSE <<>>
    ELSE <<1>>

try_extract_event(buf) ==
    IF buf = <<>> THEN <<>>
    ELSE IF buf[1] = ESC THEN
        IF Len(buf) >= 2 THEN
            IF buf[2] = 91 THEN csi_sequence_length(buf)
            ELSE IF buf[2] = 79 THEN (IF Len(buf) >= 3 THEN <<3>> ELSE <<>>)
            ELSE IF Len(buf) >= 1 + utf8_char_width(buf[2])
                 THEN <<1 + utf8_char_width(buf[2])>>
                 ELSE <<>>
        ELSE <<>>
    ELSE IF buf[1] >= 128 THEN
        IF Len(buf) >= utf8_char_width(buf[1])
        THEN <<utf8_char_width(buf[1])>>
        ELSE <<>>
    ELSE <<1>>

\* the while loop of push_byte: carve events off the front while one is complete
RECURSIVE ExtractAll(_, _)
ExtractAll(buf, rdy) ==
    LET len == try_extract_event(buf)
    IN  IF len = <<>> THEN [buffer |-> buf, ready |-> rdy]
        ELSE ExtractAll(Drop(buf, len[1]), Append(rdy, Take(buf, len[1])))

\* a bug: the byte is appended and no event is carved off
push_byte_append_only(buf, rdy, byte) ==
    [buffer |-> Append(buf, byte), ready |-> rdy, last_byte_at |-> <<0>>]

\* a bug: the time of the append is not recorded
push_byte_no_stamp(buf, rdy, byte) ==
    LET r == ExtractAll(Append(buf, byte), rdy)
    IN  [buffer |-> r.buffer, ready |-> r.ready, last_byte_at |-> <<>>]

\* a bug: a completed event is queued byte by byte
push_byte_bytewise(buf, rdy, byte) ==
    LET b == Append(buf, byte)
    IN  IF try_extract_event(b) = <<>>
        THEN [buffer |-> b, ready |-> rdy, last_byte_at |-> <<0>>]
        ELSE [buffer |-> <<>>, ready |-> rdy \o [i \in 1..Len(b) |-> <<b[i]>>],
              last_byte_at |-> <<0>>]

\* push_byte: the reader's fields after the call (the clock reads 0 ms elapsed)
push_byte(buf, rdy, byte) ==
    LET r == ExtractAll(Append(buf, byte), rdy)
    IN  [buffer |-> r.buffer, ready |-> r.ready, last_byte_at |-> <<0>>]

\* a bug: any recorded byte time counts as expired
should_flush_pending_eager(last) ==
    last # <<>>

should_flush_pending(last) ==
    IF last = <<>> THEN FALSE ELSE last[1] >= FLUSH_TIMEOUT

\* a bug: the later of the two deadlines is taken
effective_timeout_max(buf, last, requested) ==
    IF buf = <<>> THEN requested
    ELSE IF last # <<>> THEN
        IF last[1] >= FLUSH_TIMEOUT THEN 0
        ELSE IF requested >= FLUSH_TIMEOUT - last[1]
             THEN requested ELSE FLUSH_TIMEOUT - last[1]
    ELSE requested

effective_timeout(buf, last, requested) ==
    IF buf = <<>> THEN requested
    ELSE IF last # <<>> THEN
        IF last[1] >= FLUSH_TIMEOUT THEN 0
        ELSE Min(requested, FLUSH_TIMEOUT - last[1])
    ELSE requested

\* Duration::from_millis: a Duration is its whole seconds and its nanoseconds
from_millis(ms) == [secs |-> ms \div 1000, nanos |-> (ms % 1000) * 1000000]

\* a bug: a started millisecond counts as a whole one
duration_to_poll_timeout_round_up(duration) ==
    IF duration = from_millis(0) THEN 0
    ELSE LET sub == (duration.nanos + 999999) \div 1000000
         IN  IF duration.secs > I32_MAX \div 1000
                \/ (duration.secs = I32_MAX \div 1000 /\ sub >= I32_MAX % 1000)
             THEN I32_MAX
             ELSE duration.secs * 1000 + sub

\* duration.as_millis().min(i32::MAX as u128) as c_int.  as_millis is a u128
\* and cannot overflow; here the minimum is taken on seconds and milliseconds
\* apart, so that no intermediate value is larger than i32::MAX.
duration_to_poll_timeout(duration) ==
    IF duration = from_millis(0) THEN 0
    ELSE LET sub == duration.nanos \div 1000000
         IN  IF duration.secs > I32_MAX \div 1000
                \/ (duration.secs = I32_MAX \div 1000 /\ sub >= I32_MAX % 1000)
             THEN I32_MAX
             ELSE duration.secs * 1000 + sub

----------------------------------------------------------------------------
(* Decoding: pure functions.  Option<T> is <<>> or <<x>>.  A                *)
(* KeyInterpretation is modelled by its code and its modifiers; KeyCode is *)
(* <<"Char", c>>, <<"F", n>> or <<name>>.                                   *)

Interp(code, modifiers) == <<[code |-> code, modifiers |-> modifiers]>>

IsCont(b) == b >= 128 /\ b <= 191

\* Length of the well-formed UTF-8 sequence at the front of s, 0 when there is
\* none (the table std::str::from_utf8 validates against).
Utf8Front(s) ==
    LET b == s[1]
        n == Len(s)
    IN  IF b < 128 THEN 1
        ELSE IF b >= 194 /\ b <= 223
             THEN (IF n >= 2 /\ IsCont(s[2]) THEN 2 ELSE 0)
        ELSE IF b >= 224 /\ b <= 239
             THEN (IF /\ n >= 3
                      /\ IsCont(s[2]) /\ IsCont(s[3])
                      /\ (b = 224 => s[2] >= 160)
                      /\ (b = 237 => s[2] <= 159)
                   THEN 3 ELSE 0)
        ELSE IF b >= 240 /\ b <= 244
             THEN (IF /\ n >= 4
                      /\ IsCont(s[2]) /\ IsCont(s[3]) /\ IsCont(s[4])
                      /\ (b = 240 => s[2] >= 144)
                      /\ (b = 244 => s[2] <= 143)
                   THEN 4 ELSE 0)
        ELSE 0

\* The scalar value of the well-formed sequence of k bytes at the front of s.
Utf8Scalar(s, k) ==
    IF k = 1 THEN s[1]
    ELSE IF k = 2 THEN (s[1] % 32) * 64 + (s[2] % 64)
    ELSE IF k = 3 THEN (s[1] % 16) * 4096 + (s[2] % 64) * 64 + (s[3] % 64)
    ELSE (s[1] % 8) * 262144 + (s[2] % 64) * 4096 + (s[3] % 64) * 64 + (s[4] % 64)

\* std::str::from_utf8(s).ok() followed by chars(): <<>> when s is not UTF-8,
\* else <<the sequence of its chars>>.
RECURSIVE from_utf8(_)
from_utf8(s) ==
    IF s = <<>> THEN <<(<<>>)>>
    ELSE LET k == Utf8Front(s)
         IN  IF k = 0 THEN <<>>
             ELSE LET rest == from_utf8(Drop(s, k))
                  IN  IF rest = <<>> THEN <<>>
                      ELSE <<(<<Utf8Scalar(s, k)>> \o rest[1])>>

\* a bug: the range of the last control arm runs into the space character
interpret_single_byte_space(bytes) ==
    IF Len(bytes) # 1 THEN <<>>
    ELSE LET byte == bytes[1]
         IN  IF byte = 0 THEN Interp(<<"Null">>, {})
             ELSE IF byte = 13 \/ byte = 10 THEN Interp(<<"Enter">>, {})
             ELSE IF byte = 9 THEN Interp(<<"Tab">>, {})
             ELSE IF byte = 127 THEN Interp(<<"Backspace">>, {})
             ELSE IF byte = 8 THEN Interp(<<"Backspace">>, {"CONTROL"})
             ELSE IF byte = 27 THEN Interp(<<"Esc">>, {})
             ELSE IF byte >= 1 /\ byte <= 26 THEN Interp(<<"Char", byte + 96>>, {"CONTROL"})
             ELSE IF byte >= 28 /\ byte <= 32 THEN Interp(<<"Char", byte + 96>>, {"CONTROL"})
             ELSE IF byte >= 32 /\ byte <= 126 THEN Interp(<<"Char", byte>>, {})
             ELSE <<>>

\* a bug: the arm for 0x08 is missing
interpret_single_byte_no08(bytes) ==
    IF Len(bytes) # 1 THEN <<>>
    ELSE LET byte == bytes[1]
         IN  IF byte = 0 THEN Interp(<<"Null">>, {})
             ELSE IF byte = 13 \/ byte = 10 THEN Interp(<<"Enter">>, {})
             ELSE IF byte = 9 THEN Interp(<<"Tab">>, {})
             ELSE IF byte = 127 THEN Interp(<<"Backspace">>, {})
             ELSE IF byte = 27 THEN Interp(<<"Esc">>, {})
             ELSE IF byte >= 1 /\ byte <= 26 THEN Interp(<<"Char", byte + 96>>, {"CONTROL"})
             ELSE IF byte >= 28 /\ byte <= 31 THEN Interp(<<"Char", byte + 96>>, {"CONTROL"})
             ELSE IF byte >= 32 /\ byte <= 126 THEN Interp(<<"Char", byte>>, {})
             ELSE <<>>

interpret_single_byte(bytes) ==
    IF Len(bytes) # 1 THEN <<>>
    ELSE LET byte == bytes[1]
         IN  IF byte = 0 THEN Interp(<<"Null">>, {})
             ELSE IF byte = 13 \/ byte = 10 THEN Interp(<<"Enter">>, {})
             ELSE IF byte = 9 THEN Interp(<<"Tab">>, {})
             ELSE IF byte = 127 THEN Interp(<<"Backspace">>, {})
             ELSE IF byte = 8 THEN Interp(<<"Backspace">>, {"CONTROL"})
             ELSE IF byte = 27 THEN Interp(<<"Esc">>, {})
             ELSE IF byte >= 1 /\ byte <= 26 THEN Interp(<<"Char", byte + 96>>, {"CONTROL"})
             ELSE IF byte >= 28 /\ byte <= 31 THEN Interp(<<"Char", byte + 96>>, {"CONTROL"})
             ELSE IF byte >= 32 /\ byte <= 126 THEN Interp(<<"Char", byte>>, {})
             ELSE <<>>

interpret_utf8_char(bytes) ==
    IF bytes = <<>> THEN <<>>
    ELSE IF utf8_char_width(bytes[1]) # Len(bytes) THEN <<>>
    ELSE LET text == from_utf8(bytes)
         IN  IF text = <<>> THEN <<>>
             ELSE IF Len(text[1]) # 1 THEN <<>>
             ELSE Interp(<<"Char", text[1][1]>>, {})

\* a bug: the first character after ESC is taken whatever follows it
interpret_alt_sequence_first_char(bytes) ==
    IF Len(bytes) < 2 \/ bytes[1] # 27 THEN <<>>
    ELSE LET text == from_utf8(Drop(bytes, 1))
         IN  IF text = <<>> THEN <<>>
             ELSE IF Len(text[1]) < 1 THEN <<>>
             ELSE Interp(<<"Char", text[1][1]>>, {"ALT"})

\* a bug: the Alt modifier is not set
interpret_alt_sequence_plain(bytes) ==
    IF Len(bytes) < 2 \/ bytes[1] # 27 THEN <<>>
    ELSE LET text == from_utf8(Drop(bytes, 1))
         IN  IF text = <<>> THEN <<>>
             ELSE IF Len(text[1]) # 1 THEN <<>>
             ELSE Interp(<<"Char", text[1][1]>>, {})

interpret_alt_sequence(bytes) ==
    IF Len(bytes) < 2 \/ bytes[1] # 27 THEN <<>>
    ELSE LET text == from_utf8(Drop(bytes, 1))
         IN  IF text = <<>> THEN <<>>
             ELSE IF Len(text[1]) # 1 THEN <<>>
             ELSE Interp(<<"Char", text[1][1]>>, {"ALT"})

\* a bug: the final bytes of Home and End are exchanged
interpret_ss3_sequence_swapped(bytes) ==
    IF Len(bytes) # 3 \/ bytes[1] # 27 \/ bytes[2] # 79 THEN <<>>
    ELSE LET f == bytes[3]
         IN  IF f = 80 THEN Interp(<<"F", 1>>, {})
             ELSE IF f = 81 THEN Interp(<<"F", 2>>, {})
             ELSE IF f = 82 THEN Interp(<<"F", 3>>, {})
             ELSE IF f = 83 THEN Interp(<<"F", 4>>, {})
             ELSE IF f = 65 THEN Interp(<<"Up">>, {})
             ELSE IF f = 66 THEN Interp(<<"Down">>, {})
             ELSE IF f = 67 THEN Interp(<<"Right">>, {})
             ELSE IF f = 68 THEN Interp(<<"Left">>, {})
             ELSE IF f = 70 THEN Interp(<<"Home">>, {})
             ELSE IF f = 72 THEN Interp(<<"End">>, {})
             ELSE <<>>

interpret_ss3_sequence(bytes) ==
    IF Len(bytes) # 3 \/ bytes[1] # 27 \/ bytes[2] # 79 THEN <<>>
    ELSE LET f == bytes[3]
         IN  IF f = 80 THEN Interp(<<"F", 1>>, {})
             ELSE IF f = 81 THEN Interp(<<"F", 2>>, {})
             ELSE IF f = 82 THEN Interp(<<"F", 3>>, {})
             ELSE IF f = 83 THEN Interp(<<"F", 4>>, {})
             ELSE IF f = 65 THEN Interp(<<"Up">>, {})
             ELSE IF f = 66 THEN Interp(<<"Down">>, {})
             ELSE IF f = 67 THEN Interp(<<"Right">>, {})
             ELSE IF f = 68 THEN Interp(<<"Left">>, {})
             ELSE IF f = 72 THEN Interp(<<"Home">>, {})
             ELSE IF f = 70 THEN Interp(<<"End">>, {})
             ELSE <<>>

\* a bug: the codes of Alt and Control are exchanged
decode_modifier_code_swapped(value) ==
    IF value = 2 THEN {"SHIFT"}
    ELSE IF value = 3 THEN {"CONTROL"}
    ELSE IF value = 4 THEN {"SHIFT", "ALT"}
    ELSE IF value = 5 THEN {"ALT"}
    ELSE IF value = 6 THEN {"SHIFT", "CONTROL"}
    ELSE IF value = 7 THEN {"ALT", "CONTROL"}
    ELSE IF value = 8 THEN {"SHIFT", "ALT", "CONTROL"}
    ELSE {}

decode_modifier_code(value) ==
    IF value = 2 THEN {"SHIFT"}
    ELSE IF value = 3 THEN {"ALT"}
    ELSE IF value = 4 THEN {"SHIFT", "ALT"}
    ELSE IF value = 5 THEN {"CONTROL"}
    ELSE IF value = 6 THEN {"SHIFT", "CONTROL"}
    ELSE IF value = 7 THEN {"ALT", "CONTROL"}
    ELSE IF value = 8 THEN {"SHIFT", "ALT", "CONTROL"}
    ELSE {}

\* (base, modifiers)
split_params_and_modifiers(params) ==
    IF Len(params) <= 1 THEN [base |-> params, modifiers |-> {}]
    ELSE [base |-> Take(params, Len(params) - 1),
          modifiers |-> decode_modifier_code(params[Len(params)])]

\* part.parse::<u16>(): an optional '+', then decimal digits, at most 65535
RECURSIVE DigitsValue(_, _)
DigitsValue(s, acc) ==
    IF s = <<>> THEN <<acc>>
    ELSE IF s[1] < 48 \/ s[1] > 57 THEN <<>>
    ELSE IF acc * 10 + (s[1] - 48) > 65535 THEN <<>>
    ELSE DigitsValue(Tail(s), acc * 10 + (s[1] - 48))

parse_u16(part) ==
    LET digits == IF part # <<>> /\ part[1] = 43 THEN Tail(part) ELSE part
    IN  IF digits = <<>> THEN <<>> ELSE DigitsValue(digits, 0)

\* the loop over params_str.split(';'): <<>> when a part is not a number
RECURSIVE ParseParts(_, _, _)
ParseParts(s, part, params) ==
    IF s = <<>> \/ s[1] = 59 THEN
        LET v == parse_u16(part)
            rest == IF s = <<>> THEN <<>> ELSE Tail(s)
        IN  IF part # <<>> /\ v = <<>> THEN <<>>
            ELSE LET ps == IF part = <<>> THEN params ELSE Append(params, v[1])
                 IN  IF s = <<>> THEN <<ps>> ELSE ParseParts(rest, <<>>, ps)
    ELSE ParseParts(Tail(s), Append(part, s[1]), params)

RECURSIVE StripQuestionMarks(_)
StripQuestionMarks(s) ==
    IF s # <<>> /\ s[1] = 63 THEN StripQuestionMarks(Tail(s)) ELSE s

parse_csi(bytes) ==
    IF Len(bytes) < 3 \/ bytes[1] # 27 \/ bytes[2] # 91 THEN <<>>
    ELSE LET final_byte == bytes[Len(bytes)]
             params_bytes == StripQuestionMarks(SubSeq(bytes, 3, Len(bytes) - 1))
         IN  IF final_byte < 64 \/ final_byte > 126 THEN <<>>
             ELSE IF params_bytes = <<>> THEN <<[final |-> final_byte, params |-> <<>>]>>
             ELSE IF from_utf8(params_bytes) = <<>> THEN <<>>
             ELSE LET ps == ParseParts(params_bytes, <<>>, <<>>)
                  IN  IF ps = <<>> THEN <<>>
                      ELSE <<[final |-> final_byte, params |-> ps[1]]>>

build_arrow_guess(code, params) ==
    Interp(code, split_params_and_modifiers(params).modifiers)

\* a bug: the function keys are numbered without stepping over 16 and 22
interpret_csi_tilde_dense(params) ==
    LET sp == split_params_and_modifiers(params)
        key_id == IF sp.base = <<>> THEN 0 ELSE sp.base[1]
    IN  IF sp.base = <<>> THEN <<>>
        ELSE IF key_id = 1 \/ key_id = 7 THEN Interp(<<"Home">>, sp.modifiers)
        ELSE IF key_id = 2 THEN Interp(<<"Insert">>, sp.modifiers)
        ELSE IF key_id = 3 THEN Interp(<<"Delete">>, sp.modifiers)
        ELSE IF key_id = 4 \/ key_id = 8 THEN Interp(<<"End">>, sp.modifiers)
        ELSE IF key_id = 5 THEN Interp(<<"PageUp">>, sp.modifiers)
        ELSE IF key_id = 6 THEN Interp(<<"PageDown">>, sp.modifiers)
        ELSE IF key_id >= 11 /\ key_id <= 22 THEN Interp(<<"F", key_id - 10>>, sp.modifiers)
        ELSE <<>>

interpret_csi_tilde(params) ==
    LET sp == split_params_and_modifiers(params)
        key_id == IF sp.base = <<>> THEN 0 ELSE sp.base[1]
    IN  IF sp.base = <<>> THEN <<>>
        ELSE IF key_id = 1 \/ key_id = 7 THEN Interp(<<"Home">>, sp.modifiers)
        ELSE IF key_id = 2 THEN Interp(<<"Insert">>, sp.modifiers)
        ELSE IF key_id = 3 THEN Interp(<<"Delete">>, sp.modifiers)
        ELSE IF key_id = 4 \/ key_id = 8 THEN Interp(<<"End">>, sp.modifiers)
        ELSE IF key_id = 5 THEN Interp(<<"PageUp">>, sp.modifiers)
        ELSE IF key_id = 6 THEN Interp(<<"PageDown">>, sp.modifiers)
        ELSE IF key_id >= 11 /\ key_id <= 15 THEN Interp(<<"F", key_id - 10>>, sp.modifiers)
        ELSE IF key_id >= 17 /\ key_id <= 21 THEN Interp(<<"F", key_id - 11>>, sp.modifiers)
        ELSE IF key_id = 23 \/ key_id = 24 THEN Interp(<<"F", key_id - 12>>, sp.modifiers)
        ELSE <<>>

\* a bug: the final byte 'F' is decoded as Home
interpret_csi_sequence_end_as_home(bytes) ==
    LET p == parse_csi(bytes)
    IN  IF p = <<>> THEN <<>>
        ELSE LET f == p[1].final
                 params == p[1].params
             IN  IF f = 65 THEN build_arrow_guess(<<"Up">>, params)
                 ELSE IF f = 66 THEN build_arrow_guess(<<"Down">>, params)
                 ELSE IF f = 67 THEN build_arrow_guess(<<"Right">>, params)
                 ELSE IF f = 68 THEN build_arrow_guess(<<"Left">>, params)
                 ELSE IF f = 70 THEN build_arrow_guess(<<"Home">>, params)
                 ELSE IF f = 72 THEN build_arrow_guess(<<"Home">>, params)
                 ELSE IF f = 90 THEN Interp(<<"BackTab">>, {"SHIFT"})
                 ELSE IF f = 126 THEN interpret_csi_tilde(params)
                 ELSE <<>>

interpret_csi_sequence(bytes) ==
    LET p == parse_csi(bytes)
    IN  IF p = <<>> THEN <<>>
        ELSE LET f == p[1].final
                 params == p[1].params
             IN  IF f = 65 THEN build_arrow_guess(<<"Up">>, params)
                 ELSE IF f = 66 THEN build_arrow_guess(<<"Down">>, params)
                 ELSE IF f = 67 THEN build_arrow_guess(<<"Right">>, params)
                 ELSE IF f = 68 THEN build_arrow_guess(<<"Left">>, params)
                 ELSE IF f = 70 THEN build_arrow_guess(<<"End">>, params)
                 ELSE IF f = 72 THEN build_arrow_guess(<<"Home">>, params)
                 ELSE IF f = 90 THEN Interp(<<"BackTab">>, {"SHIFT"})
                 ELSE IF f = 126 THEN interpret_csi_tilde(params)
                 ELSE <<>>

\* a bug: the later interpreter wins
OrElse_last(a, b) == IF b # <<>> THEN b ELSE a

OrElse(a, b) == IF a # <<>> THEN a ELSE b

interpret_bytes(bytes) ==
    IF bytes = <<>> THEN <<>>
    ELSE OrElse(interpret_csi_sequence(bytes),
         OrElse(interpret_ss3_sequence(bytes),
         OrElse(interpret_alt_sequence(bytes),
         OrElse(interpret_single_byte(bytes),
                interpret_utf8_char(bytes)))))

----------------------------------------------------------------------------
(* State machine *)

\* no TuiApp has been built
TuiOff ==
    /\ t_pc = "off"
    /\ viewport = "AltStdout"
    /\ capture_mouse = TRUE
    /\ hide_cursor = TRUE
    /\ enabled = {}
    /\ disabled = {}

\* The state when run enters its loop with args.max_inputs = inputs:
\* init_terminal has enabled raw mode and mouse capture and hidden the cursor,
\* RawInputReader::new has built an empty reader.
Launch(inputs) ==
    /\ d_pc = "off"
    /\ q = <<>>
    /\ printed = <<>>
    /\ modes = {}
    /\ termios = "orig"
    /\ span = <<>>
    /\ info = <<>>
    /\ max_inputs = inputs
    /\ raw_mode = TRUE
    /\ mouse_capture = TRUE
    /\ cursor_hidden = TRUE
    /\ nonblocking \in BOOLEAN
    /\ script \in Scripts
    /\ sent = 0
    /\ fdq = <<>>
    /\ stdin_buf = <<>>
    /\ buffer = <<>>
    /\ ready = <<>>
    /\ last_byte_at = <<>>
    /\ pc = "loop"
    /\ poll_timeout_ms = 0
    /\ waited = 0
    /\ intr = 0
    /\ result = "none"
    /\ emitted = <<>>
    /\ pushed = <<>>
    /\ since_append = 0
    /\ head_age = 0
    /\ late = FALSE
    /\ eff0 = 0
    /\ poll_duration = from_millis(0)
    /\ requested_ms = 0
    /\ eof = FALSE
    /\ TuiOff
    /\ total_waited = 0

\* run with the default budget of inputs, which no script of the model reaches
Init == Launch(DEFAULT_MAX_INPUTS)

\* The terminal makes the next k bytes of the script readable in one chunk.
Arrive(k) ==
    /\ sent + k <= Len(script)
    /\ fdq' = fdq \o SubSeq(script, sent + 1, sent + k)
    /\ sent' = sent + k
    /\ UNCHANGED <<tui, dbg, decoder, term, max_inputs, nonblocking, script, stdin_buf, reader, pc, poll_timeout_ms,
                   waited, intr, result, history>>

Age(t) == Min(t + Quantum, FLUSH_TIMEOUT)

\* The thread is blocked in read(): nothing to read on a blocking descriptor.
BlockedInRead ==
    pc = "read" /\ stdin_buf = <<>> /\ fdq = <<>> /\ ~nonblocking

\* Quantum ms pass: while the thread is blocked in poll() or read(), or while
\* run is between two poll_next calls (terminal.draw).  The code between two
\* system calls inside poll_next takes no time at this granularity.
Tick ==
    /\ pc \in {"loop", "poll"} \/ BlockedInRead
    /\ last_byte_at' = IF last_byte_at = <<>> THEN <<>> ELSE <<Age(last_byte_at[1])>>
    /\ since_append' = Age(since_append)
    /\ head_age' = IF buffer = <<>> THEN head_age ELSE Age(head_age)
    /\ late' = (late \/ (buffer # <<>> /\ head_age < FLUSH_TIMEOUT
                         /\ Age(head_age) >= FLUSH_TIMEOUT /\ sent < Len(script)))
    /\ waited' = IF pc = "poll" THEN Min(waited + Quantum, poll_timeout_ms) ELSE waited
    /\ total_waited' = IF pc = "poll"
                       THEN total_waited + (Min(waited + Quantum, poll_timeout_ms) - waited)
                       ELSE total_waited
    /\ UNCHANGED <<tui, dbg, decoder, term, max_inputs, nonblocking, script, sent, fdq, stdin_buf, buffer, ready, pc,
                   poll_timeout_ms, intr, result, emitted, pushed, eff0, poll_duration, requested_ms, eof>>

\* events.len() and input_count of run: process_event_bytes adds one per event
input_count == Len(emitted)

\* run returns Err through a `?`: restore_terminal is not called; dropping the
\* ratatui Terminal shows the cursor again and does nothing else.
RunErr ==
    /\ pc' = "failed"
    /\ cursor_hidden' = FALSE
    /\ UNCHANGED <<raw_mode, mouse_capture>>

\* terminal.draw(..)? at the end of an iteration, then the top of the loop
Draw ==
    \/ pc' = "loop" /\ UNCHANGED term
    \/ RunErr

\* The call in progress is a poll_next(Duration::ZERO) of the inner while loop:
\* that is the case exactly when the call before it returned an event.
InDrain == result = "some"

\* poll_next returns Ok(Some(event)); run records it and goes on draining,
\* unless this was a drain call and the budget of inputs is used up (`break`).
ReturnSome(event, kind) ==
    /\ result' = "some"
    /\ emitted' = Append(emitted, [bytes |-> event, kind |-> kind,
                                   idle |-> IF kind = "flush" THEN since_append ELSE 0])
    /\ IF InDrain /\ input_count + 1 >= max_inputs
       THEN Draw
       ELSE pc' = "drain" /\ UNCHANGED term

\* poll_next returns Ok(None); run draws and goes to the top of the loop.
ReturnNone ==
    /\ result' = "none"
    /\ emitted' = emitted
    /\ Draw

\* a bug: the flush copies the pending bytes and leaves them in the buffer
FlushOrNone_copy ==
    IF buffer # <<>> /\ should_flush_pending(last_byte_at)
    THEN /\ ReturnSome(buffer, "flush")
         /\ buffer' = buffer
    ELSE /\ ReturnNone
         /\ buffer' = buffer

\* `if !buffer.is_empty() && should_flush_pending() { drain(..) }`, else Ok(None)
\* a bug: the flush does not test that the buffer holds bytes
FlushOrNone_unguarded ==
    IF should_flush_pending(last_byte_at)
    THEN /\ ReturnSome(buffer, "flush")
         /\ buffer' = <<>>
    ELSE /\ ReturnNone
         /\ buffer' = buffer

FlushOrNone ==
    IF buffer # <<>> /\ should_flush_pending(last_byte_at)
    THEN /\ ReturnSome(buffer, "flush")
         /\ buffer' = <<>>
    ELSE /\ ReturnNone
         /\ buffer' = buffer

\* ready.pop_front(), else the flush check, else Ok(None)
PopFlushOrNone ==
    IF ready # <<>>
    THEN /\ ReturnSome(Head(ready), "ready")
         /\ ready' = Tail(ready)
         /\ buffer' = buffer
    ELSE /\ FlushOrNone
         /\ ready' = ready

\* poll_next computes effective_timeout and poll_timeout_ms and enters the wait
\* loop
EnterWait(timeout) ==
    /\ poll_timeout_ms' =
           duration_to_poll_timeout(from_millis(effective_timeout(buffer, last_byte_at, timeout)))
    /\ eff0' = effective_timeout(buffer, last_byte_at, timeout)
    /\ poll_duration' = from_millis(effective_timeout(buffer, last_byte_at, timeout))
    /\ requested_ms' = timeout
    /\ waited' = 0
    /\ total_waited' = 0
    /\ pc' = "poll"
    /\ UNCHANGED <<term, buffer, ready, result, emitted, eof>>

\* run calls poll_next(timeout): the code up to the first poll().
PollNextEntry(timeout) ==
    /\ IF ready # <<>> \/ (buffer # <<>> /\ should_flush_pending(last_byte_at))
       THEN /\ PopFlushOrNone
            /\ UNCHANGED <<poll_timeout_ms, waited, eff0, poll_duration, requested_ms, eof, total_waited>>
       ELSE EnterWait(timeout)
    /\ UNCHANGED <<tui, dbg, decoder, max_inputs, nonblocking, script, sent, fdq, stdin_buf, last_byte_at, intr,
                   pushed, since_append, head_age, late>>

CallLoop ==
    /\ pc = "loop"
    /\ input_count < max_inputs
    /\ PollNextEntry(DRAW_TIMEOUT)

CallDrain ==
    /\ pc = "drain"
    /\ PollNextEntry(0)

\* poll() reports the descriptor readable.
PollReadable ==
    /\ pc = "poll"
    /\ fdq # <<>>
    /\ pc' = "read"
    /\ UNCHANGED <<tui, dbg, decoder, term, max_inputs, nonblocking, script, sent, fdq, stdin_buf, reader, poll_timeout_ms,
                   waited, intr, result, history>>

\* poll() returns 0: the timeout ran out with nothing readable.
PollTimeout ==
    /\ pc = "poll"
    /\ fdq = <<>>
    /\ waited >= poll_timeout_ms
    /\ FlushOrNone
    /\ UNCHANGED <<tui, dbg, decoder, max_inputs, nonblocking, script, sent, fdq, stdin_buf, ready, last_byte_at,
                   poll_timeout_ms, waited, intr, pushed, since_append, head_age,
                   late, eff0, poll_duration, requested_ms, eof, total_waited>>

\* a bug: EINTR is returned to the caller like any other errno
PollEINTR_surfaced ==
    /\ pc = "poll"
    /\ intr < MaxIntr
    /\ intr' = intr + 1
    /\ RunErr
    /\ result' = "err"
    /\ UNCHANGED <<tui, dbg, decoder, max_inputs, nonblocking, script, sent, fdq, stdin_buf, reader,
                   poll_timeout_ms, waited, history>>

\* poll() fails with EINTR: `continue` polls again with the same poll_timeout.
PollEINTR ==
    /\ pc = "poll"
    /\ intr < MaxIntr
    /\ intr' = intr + 1
    /\ waited' = 0
    /\ UNCHANGED <<tui, dbg, decoder, term, max_inputs, nonblocking, script, sent, fdq, stdin_buf, reader, pc,
                   poll_timeout_ms, result, history>>

\* poll() fails with another errno: poll_next returns Err, run returns it.
PollFatal ==
    /\ pc = "poll"
    /\ RunErr
    /\ result' = "err"
    /\ UNCHANGED <<tui, dbg, decoder, max_inputs, nonblocking, script, sent, fdq, stdin_buf, reader, poll_timeout_ms,
                   waited, intr, history>>

\* stdin_lock.read(&mut byte) yields a byte: from Stdin's buffer, which a read
\* of the descriptor refills with everything readable when it is empty.
ReadByte ==
    /\ pc = "read"
    /\ stdin_buf # <<>> \/ fdq # <<>>
    /\ LET avail == IF stdin_buf # <<>> THEN stdin_buf ELSE fdq
           r == push_byte(buffer, ready, Head(avail))
       IN  /\ stdin_buf' = Tail(avail)
           /\ fdq' = IF stdin_buf # <<>> THEN fdq ELSE <<>>
           /\ pushed' = Append(pushed, Head(avail))
           /\ last_byte_at' = r.last_byte_at
           /\ since_append' = 0
           /\ head_age' = IF buffer = <<>> THEN 0 ELSE head_age
           /\ buffer' = r.buffer
           /\ IF r.ready # <<>>
              THEN /\ ReturnSome(Head(r.ready), "ready")
                   /\ ready' = Tail(r.ready)
              ELSE /\ ready' = r.ready
                   /\ UNCHANGED <<term, pc, result, emitted>>
    /\ UNCHANGED <<tui, dbg, decoder, max_inputs, nonblocking, script, sent, poll_timeout_ms, waited, intr, late,
                   eff0, poll_duration, requested_ms, eof, total_waited>>

\* read fails with WouldBlock: `break` out of the read loop.
ReadWouldBlock ==
    /\ pc = "read"
    /\ stdin_buf = <<>> /\ fdq = <<>>
    /\ nonblocking
    /\ pc' = "tail"
    /\ UNCHANGED <<tui, dbg, decoder, term, max_inputs, nonblocking, script, sent, fdq, stdin_buf, reader, poll_timeout_ms,
                   waited, intr, result, history>>

\* read fails with Interrupted: `continue` reads again.
ReadInterrupted ==
    /\ pc = "read"
    /\ stdin_buf = <<>>
    /\ intr < MaxIntr
    /\ intr' = intr + 1
    /\ UNCHANGED <<tui, dbg, decoder, term, max_inputs, nonblocking, script, sent, fdq, stdin_buf, reader, pc,
                   poll_timeout_ms, waited, result, history>>

\* a bug: a fatal read error ends the read loop like WouldBlock
ReadFatal_break ==
    /\ pc = "read"
    /\ stdin_buf = <<>>
    /\ pc' = "tail"
    /\ UNCHANGED <<tui, dbg, decoder, term, max_inputs, nonblocking, script, sent, fdq, stdin_buf, reader,
                   poll_timeout_ms, waited, intr, result, history>>

\* read fails with another error: poll_next returns it.
ReadFatal ==
    /\ pc = "read"
    /\ stdin_buf = <<>>
    /\ RunErr
    /\ result' = "err"
    /\ UNCHANGED <<tui, dbg, decoder, max_inputs, nonblocking, script, sent, fdq, stdin_buf, reader, poll_timeout_ms,
                   waited, intr, history>>

\* the code after the read loop
AfterRead ==
    /\ pc = "tail"
    /\ PopFlushOrNone
    /\ UNCHANGED <<tui, dbg, decoder, max_inputs, nonblocking, script, sent, fdq, stdin_buf, last_byte_at,
                   poll_timeout_ms, waited, intr, pushed, since_append, head_age,
                   late, eff0, poll_duration, requested_ms, eof, total_waited>>

\* the steps the thread takes when no system call fails
Program ==
    \/ CallLoop
    \/ CallDrain
    \/ PollReadable
    \/ PollTimeout
    \/ ReadByte
    \/ ReadWouldBlock
    \/ AfterRead

Next ==
    \/ \E k \in 1..3 : Arrive(k)
    \/ Tick
    \/ Program
    \/ PollEINTR
    \/ PollFatal
    \/ ReadInterrupted
    \/ ReadFatal

Spec == Init /\ [][Next]_vars

\* The thread keeps running and time keeps passing; the terminal owes nothing.
FairSpec == Spec /\ WF_vars(Program) /\ WF_vars(Tick)

\* The same, on a descriptor that has O_NONBLOCK set.
InitNB == Init /\ nonblocking

FairSpecNB == InitNB /\ [][Next]_vars /\ WF_vars(Program) /\ WF_vars(Tick)

----------------------------------------------------------------------------
(* run from its first iteration to its return, with a small budget of      *)
(* inputs and a deadline that may pass at any iteration.                   *)

MaxInputs == 2

\* 'A'; 'A' 'A'; ESC; ESC '[' 'A'; ESC 'O' 'P'; 0xC3 0xA9
RunScripts == { <<65>>, <<65, 65>>, <<27>>, <<27, 91, 65>>, <<27, 79, 80>>, <<195, 169>> }

InitRun ==
    /\ \E inputs \in 1..MaxInputs : Launch(inputs)
    /\ script \in RunScripts

\* `break` out of the loop: restore_terminal disables raw mode and mouse
\* capture and shows the cursor, then the final table is inserted (which may
\* fail) and run returns.
LeaveLoop ==
    /\ pc = "loop"
    /\ raw_mode' = FALSE
    /\ mouse_capture' = FALSE
    /\ cursor_hidden' = FALSE
    /\ pc' \in {"done", "failed"}
    /\ UNCHANGED <<tui, dbg, decoder, max_inputs, nonblocking, script, sent, fdq, stdin_buf, reader,
                   poll_timeout_ms, waited, intr, result, history>>

\* start_time.elapsed() >= timeout_duration at the top of the loop
ExitTimeout ==
    /\ LeaveLoop

\* input_count >= args.max_inputs at the top of the loop
ExitBudget ==
    /\ input_count >= max_inputs
    /\ LeaveLoop

\* the terminal has hung up after the last byte of the script
StreamEnded == sent = Len(script) /\ fdq = <<>> /\ stdin_buf = <<>>

\* poll() reports the descriptor readable at end of stream
PollHangup ==
    /\ pc = "poll"
    /\ StreamEnded
    /\ pc' = "read"
    /\ UNCHANGED <<tui, dbg, decoder, term, max_inputs, nonblocking, script, sent, fdq, stdin_buf,
                   reader, poll_timeout_ms, waited, intr, result, history>>

\* read returns Ok(0): `break` out of the read loop
ReadEof ==
    /\ pc = "read"
    /\ StreamEnded
    /\ eof' = TRUE
    /\ pc' = "tail"
    /\ UNCHANGED <<tui, dbg, decoder, term, max_inputs, nonblocking, script, sent, fdq, stdin_buf,
                   reader, poll_timeout_ms, waited, intr, result, emitted, pushed,
                   since_append, head_age, late, eff0, poll_duration, requested_ms, total_waited>>

NextRun ==
    \/ Next
    \/ ExitTimeout
    \/ ExitBudget
    \/ PollHangup
    \/ ReadEof

SpecRun == InitRun /\ [][NextRun]_vars

\* The thread keeps running and time keeps passing, so that start_time.elapsed()
\* reaches the timeout: from then on every pass through the top of the loop
\* leaves it.
FairSpecRun ==
    SpecRun /\ WF_vars(Program) /\ WF_vars(Tick) /\ SF_vars(ExitTimeout)

----------------------------------------------------------------------------
(* The decoder alone: process_event_bytes makes an InputEventInfo from one  *)
(* byte span.                                                              *)

\* an uppercase hexadecimal digit, as a character
HexDigit(n) == IF n < 10 THEN 48 + n ELSE 55 + n

\* a bug: "{:X}" for "{:02X}", no leading zero
RECURSIVE HexString_unpadded(_)
HexString_unpadded(raw_bytes) ==
    IF raw_bytes = <<>> THEN <<>>
    ELSE LET b == raw_bytes[1]
             two == IF b < 16 THEN <<HexDigit(b)>>
                    ELSE <<HexDigit(b \div 16), HexDigit(b % 16)>>
         IN  IF Len(raw_bytes) = 1 THEN two
             ELSE two \o <<32>> \o HexString_unpadded(Tail(raw_bytes))

\* the hex_string of an InputEventInfo: format!("{:02X}", b) for each byte,
\* joined by " "
RECURSIVE HexString(_)
HexString(raw_bytes) ==
    IF raw_bytes = <<>> THEN <<>>
    ELSE LET b == raw_bytes[1]
             two == <<HexDigit(b \div 16), HexDigit(b % 16)>>
         IN  IF Len(raw_bytes) = 1 THEN two
             ELSE two \o <<32>> \o HexString(Tail(raw_bytes))

\* escape_bytes: the escaped_string of an InputEventInfo, as characters
RECURSIVE escape_bytes(_)
escape_bytes(bytes) ==
    IF bytes = <<>> THEN <<>>
    ELSE LET b == bytes[1]
             width == utf8_char_width(b)
             slice == IF width > 1 /\ width <= Len(bytes)
                      THEN from_utf8(Take(bytes, width)) ELSE <<>>
         IN  IF b = 27 THEN <<92, 120, 49, 66>> \o escape_bytes(Tail(bytes))
             ELSE IF b = 10 THEN <<92, 110>> \o escape_bytes(Tail(bytes))
             ELSE IF b = 13 THEN <<92, 114>> \o escape_bytes(Tail(bytes))
             ELSE IF b = 9 THEN <<92, 116>> \o escape_bytes(Tail(bytes))
             ELSE IF b >= 32 /\ b <= 126 THEN <<b>> \o escape_bytes(Tail(bytes))
             ELSE IF slice # <<>> THEN slice[1] \o escape_bytes(Drop(bytes, width))
             ELSE <<92, 120, HexDigit(b \div 16), HexDigit(b % 16)>>
                      \o escape_bytes(Tail(bytes))

\* GuessInfo::from_bytes: kind "Press" with the interpretation's code and
\* modifiers, or the Unknown guess
GuessInfo_from_bytes(bytes) ==
    LET interp == interpret_bytes(bytes)
    IN  IF interp = <<>>
        THEN [kind |-> "Unknown", code |-> <<"Unknown">>, modifiers |-> {}]
        ELSE [kind |-> "Press", code |-> interp[1].code,
              modifiers |-> interp[1].modifiers]

InputEventInfo_from_bytes(raw_bytes) ==
    [hex_string |-> HexString(raw_bytes),
     escaped_string |-> escape_bytes(raw_bytes),
     guess |-> GuessInfo_from_bytes(raw_bytes)]

MaxModifier == 9     \* modifier parameters 0..MaxModifier
MaxKeyId == 25       \* first parameters of '~' spans 0..MaxKeyId, and 200, 201
MaxButton == 40      \* mouse button codes 0..MaxButton

\* the decimal digits of n, as bytes
RECURSIVE Decimal(_)
Decimal(n) == IF n < 10 THEN <<48 + n>> ELSE Decimal(n \div 10) \o <<48 + (n % 10)>>

\* parameters joined by ';'
RECURSIVE Joined(_)
Joined(params) ==
    IF params = <<>> THEN <<>>
    ELSE IF Len(params) = 1 THEN Decimal(params[1])
    ELSE Decimal(params[1]) \o <<59>> \o Joined(Tail(params))

Csi(params, final) == <<27, 91>> \o Joined(params) \o <<final>>

\* A B C D F H
NavFinals == {65, 66, 67, 68, 70, 72}

NavParams ==
    {<<>>} \cup {<<p>> : p \in 0..MaxModifier}
           \cup {<<p, m>> : p \in {1, 5}, m \in 0..MaxModifier}
           \cup {<<1, p, m>> : p \in {1, 5}, m \in 0..MaxModifier}

KeyIds == (0..MaxKeyId) \cup {200, 201}

TildeParams ==
    {<<k>> : k \in KeyIds} \cup {<<k, m>> : k \in KeyIds, m \in 0..MaxModifier}
                            \cup {<<k, 1, m>> : k \in KeyIds, m \in {0, 5}}

Coordinates == {1, 10, 20}

\* ESC '[' '<' b ';' x ';' y, then 'M' or 'm'
SgrMouse(b, x, y, final) ==
    <<27, 91, 60>> \o Decimal(b) \o <<59>> \o Decimal(x) \o <<59>> \o Decimal(y)
                   \o <<final>>

\* two bytes: ESC, a continuation byte, a lead byte of each width or 0xFF,
\* then any byte
PairSpans == {<<a, b>> : a \in {27, 128, 195, 226, 240, 255}, b \in 0..255}

\* characters of three and four bytes, well-formed and not
LongChars ==
    { <<226, 130, 172>>, <<226, 65, 65>>, <<224, 128, 128>>, <<237, 160, 128>>,
      <<240, 159, 152, 128>>, <<244, 144, 128, 128>>, <<240, 159, 152, 65>> }

\* ESC '[' spans cut off before a final byte
UnterminatedCsi == {<<27, 91, 49>>, <<27, 91, 49, 59>>, <<27, 91, 49, 59, 53>>, <<27, 91, 63>>}

\* the final bytes 0x40..=0x7E that interpret_csi_sequence has no arm for
OtherFinals == (64..126) \ (NavFinals \cup {90, 126})

OtherFinalCsi == {Csi(ps, f) : ps \in {<<>>, <<1>>, <<1, 5>>}, f \in OtherFinals}

\* parameter parts that part.parse::<u16>() rejects: "<0", "1:2", "-1", " 1",
\* "65536", "1;99999"
BadParams ==
    { <<60, 48>>, <<49, 58, 50>>, <<45, 49>>, <<32, 49>>,
      <<54, 53, 53, 51, 54>>, <<49, 59, 57, 57, 57, 57, 57>> }

BadParamCsi == {<<27, 91>> \o ps \o <<f>> : ps \in BadParams, f \in {65, 126}}

\* ESC 'O' and any third byte
Ss3Spans == {<<27, 79, f>> : f \in 0..255}

Spans ==
    {<<b>> : b \in 0..255}
    \cup Ss3Spans
    \cup {Csi(<<>>, 90)}
    \cup PairSpans \cup LongChars
    \cup UnterminatedCsi \cup OtherFinalCsi \cup BadParamCsi
    \cup {Csi(ps, f) : ps \in NavParams, f \in NavFinals}
    \cup {Csi(ps, 126) : ps \in TildeParams}
    \cup {SgrMouse(b, x, y, f) : b \in 0..MaxButton, x \in Coordinates,
                                 y \in Coordinates, f \in {77, 109}}

InitDecode ==
    /\ Launch(DEFAULT_MAX_INPUTS)
    /\ nonblocking
    /\ script = <<27>>

\* a terminal delivers the span as one event
Deliver ==
    /\ span = <<>>
    /\ info = <<>>
    /\ \E bytes \in Spans : span' = bytes
    /\ UNCHANGED <<tui, dbg, info, term, max_inputs, nonblocking, script, sent, fdq, stdin_buf,
                   reader, pc, poll_timeout_ms, waited, intr, result, history>>

\* process_event_bytes(bytes, ..): InputEventInfo::from_bytes(bytes)
process_event_bytes ==
    /\ span # <<>>
    /\ info = <<>>
    /\ info' = <<InputEventInfo_from_bytes(span)>>
    /\ UNCHANGED <<tui, dbg, span, term, max_inputs, nonblocking, script, sent, fdq, stdin_buf,
                   reader, pc, poll_timeout_ms, waited, intr, result, history>>

NextDecode ==
    \/ Deliver
    \/ process_event_bytes

SpecDecode == InitDecode /\ [][NextDecode]_vars

----------------------------------------------------------------------------
(* src/debug_rust_only.rs: the token printer.  Strings are kept as their    *)
(* bytes (String::from_utf8_lossy changes nothing in an ASCII sequence).    *)

\* the first arm of parse_next: control bytes and DEL
ControlToken(b) ==
    IF b = 0 THEN <<"Ctrl", "@">>
    ELSE IF b = 1 THEN <<"Ctrl", "A">>
    ELSE IF b = 2 THEN <<"Ctrl", "B">>
    ELSE IF b = 3 THEN <<"Ctrl", "C">>
    ELSE IF b = 4 THEN <<"Ctrl", "D">>
    ELSE IF b = 5 THEN <<"Ctrl", "E">>
    ELSE IF b = 6 THEN <<"Ctrl", "F">>
    ELSE IF b = 7 THEN <<"Key", "BEL">>
    ELSE IF b = 8 THEN <<"Key", "BS">>
    ELSE IF b = 9 THEN <<"Key", "TAB">>
    ELSE IF b = 10 THEN <<"Key", "LF">>
    ELSE IF b = 13 THEN <<"Key", "CR">>
    ELSE IF b = 27 THEN <<"Esc">>
    ELSE IF b = 127 THEN <<"Key", "DEL">>
    ELSE <<"Ctrl", "?">>

\* the while loop of gather_ansi: (string, has_final) and what is left of q
RECURSIVE GatherLoop(_, _)
GatherLoop(queue, tmp) ==
    IF queue = <<>> THEN [seq |-> tmp, final_ready |-> FALSE, q |-> queue]
    ELSE LET c == Head(queue)
             t == Append(tmp, c)
         IN  IF c >= 64 /\ c <= 126
             THEN [seq |-> t, final_ready |-> TRUE, q |-> Tail(queue)]
             ELSE IF Len(t) > CSI_LOOKAHEAD
             THEN [seq |-> t, final_ready |-> FALSE, q |-> Tail(queue)]
             ELSE GatherLoop(Tail(queue), t)

\* <<>> (None), or <<the gathered sequence>>; the bytes gathered leave q
gather_ansi(queue, lead) ==
    IF Len(queue) < 2 THEN <<>>
    ELSE <<GatherLoop(Drop(queue, 2), <<lead>>)>>

\* str::parse::<i32>: an optional sign, then decimal digits, within i32
RECURSIVE DigitsI32(_, _, _)
DigitsI32(str, acc, sign) ==
    IF str = <<>> THEN <<sign * acc>>
    ELSE IF str[1] < 48 \/ str[1] > 57 THEN <<>>
    ELSE IF sign * (acc * 10 + (str[1] - 48)) > I32_MAX
            \/ sign * (acc * 10 + (str[1] - 48)) < -I32_MAX - 1 THEN <<>>
    ELSE DigitsI32(Tail(str), acc * 10 + (str[1] - 48), sign)

parse_i32(part) ==
    LET signed == part # <<>> /\ part[1] \in {43, 45}
        digits == IF signed THEN Tail(part) ELSE part
    IN  IF digits = <<>> THEN <<>>
        ELSE DigitsI32(digits, 0, IF signed /\ part[1] = 45 THEN -1 ELSE 1)

\* rest.split(|c| c == ';' || c == 'M' || c == 'm'), as the sequence of parts
RECURSIVE SplitMouse(_, _)
SplitMouse(str, part) ==
    IF str = <<>> THEN <<part>>
    ELSE IF str[1] \in {59, 77, 109} THEN <<part>> \o SplitMouse(Tail(str), <<>>)
    ELSE SplitMouse(Tail(str), Append(part, str[1]))

\* rest.find('~'): 0 when there is none
RECURSIVE FindTilde(_, _)
FindTilde(str, i) ==
    IF i > Len(str) THEN 0
    ELSE IF str[i] = 126 THEN i
    ELSE FindTilde(str, i + 1)

Contains(str, c) == \E i \in 1..Len(str) : str[i] = c

\* the match on the number in front of '~': <<>> when it has no arm
TildeName(num) ==
    IF num \in {<<49>>, <<55>>} THEN <<"HOME">>
    ELSE IF num = <<50>> THEN <<"INS">>
    ELSE IF num = <<51>> THEN <<"DEL">>
    ELSE IF num \in {<<52>>, <<56>>} THEN <<"END">>
    ELSE IF num = <<53>> THEN <<"PGUP">>
    ELSE IF num = <<54>> THEN <<"PGDN">>
    ELSE IF num = <<49, 49>> THEN <<"F1">>
    ELSE IF num = <<49, 50>> THEN <<"F2">>
    ELSE IF num = <<49, 51>> THEN <<"F3">>
    ELSE IF num = <<49, 52>> THEN <<"F4">>
    ELSE IF num = <<49, 53>> THEN <<"F5">>
    ELSE IF num = <<49, 55>> THEN <<"F6">>
    ELSE IF num = <<49, 56>> THEN <<"F7">>
    ELSE IF num = <<49, 57>> THEN <<"F8">>
    ELSE IF num = <<50, 48>> THEN <<"F9">>
    ELSE IF num = <<50, 49>> THEN <<"F10">>
    ELSE IF num = <<50, 51>> THEN <<"F11">>
    ELSE IF num = <<50, 52>> THEN <<"F12">>
    ELSE <<>>

\* the SGR mouse arm of map_csi; str is what follows "[<"
MouseToken(rest, str) ==
    LET parts == SplitMouse(str, <<>>)
    IN  IF Len(parts) < 3 THEN <<>>
        ELSE LET b == parse_i32(parts[1])
                 cx == parse_i32(parts[2])
                 cy == parse_i32(parts[3])
             IN  IF b = <<>> \/ cx = <<>> \/ cy = <<>> THEN <<>>
                 ELSE <<[press |-> Contains(rest, 77), x |-> cx[1], y |-> cy[1],
                         mods |-> (b[1] \div 8) % 8, btn |-> b[1] % 8]>>

\* <<>> (None) or <<token>>
map_csi(str) ==
    IF str = <<91, 65>> THEN <<(<<"Key", "UP">>)>>
    ELSE IF str = <<91, 66>> THEN <<(<<"Key", "DOWN">>)>>
    ELSE IF str = <<91, 67>> THEN <<(<<"Key", "RIGHT">>)>>
    ELSE IF str = <<91, 68>> THEN <<(<<"Key", "LEFT">>)>>
    ELSE IF str = <<91, 72>> THEN <<(<<"Key", "HOME">>)>>
    ELSE IF str = <<91, 70>> THEN <<(<<"Key", "END">>)>>
    ELSE IF str = <<91, 50, 48, 48, 126>> THEN <<(<<"PasteStart">>)>>
    ELSE IF str = <<91, 50, 48, 49, 126>> THEN <<(<<"PasteEnd">>)>>
    ELSE IF str = <<>> \/ str[1] # 91 THEN <<>>
    ELSE LET rest == Tail(str)
             idx == FindTilde(rest, 1)
         IN  IF idx > 0
             THEN (IF TildeName(Take(rest, idx - 1)) = <<>> THEN <<>>
                   ELSE <<(<<"Key", TildeName(Take(rest, idx - 1))[1]>>)>>)
             ELSE IF rest # <<>> /\ rest[1] = 60
             THEN (IF MouseToken(rest, Tail(rest)) = <<>> THEN <<>>
                   ELSE <<(<<"Mouse", MouseToken(rest, Tail(rest))[1]>>)>>)
             ELSE <<>>

map_ss3(str) ==
    IF str = <<79, 80>> THEN <<(<<"Key", "F1">>)>>
    ELSE IF str = <<79, 81>> THEN <<(<<"Key", "F2">>)>>
    ELSE IF str = <<79, 82>> THEN <<(<<"Key", "F3">>)>>
    ELSE IF str = <<79, 83>> THEN <<(<<"Key", "F4">>)>>
    ELSE IF str = <<79, 65>> THEN <<(<<"Key", "UP">>)>>
    ELSE IF str = <<79, 66>> THEN <<(<<"Key", "DOWN">>)>>
    ELSE IF str = <<79, 67>> THEN <<(<<"Key", "RIGHT">>)>>
    ELSE IF str = <<79, 68>> THEN <<(<<"Key", "LEFT">>)>>
    ELSE <<>>

\* the CSI and SS3 arms of parse_next: gather, then map or keep the raw text
SequenceToken(queue, lead) ==
    LET g == gather_ansi(queue, lead)
    IN  IF g = <<>> THEN [tok |-> <<>>, q |-> queue]
        ELSE IF ~g[1].final_ready THEN [tok |-> <<>>, q |-> g[1].q]
        ELSE LET mapped == IF lead = 91 THEN map_csi(g[1].seq) ELSE map_ss3(g[1].seq)
             IN  IF mapped # <<>> THEN [tok |-> mapped, q |-> g[1].q]
                 ELSE [tok |-> <<(<<IF lead = 91 THEN "CSI" ELSE "SS3", g[1].seq>>)>>,
                       q |-> g[1].q]

\* parse_next(q): tok is <<>> (None) or <<token>>, q is the queue afterwards
parse_next(queue) ==
    IF queue = <<>> THEN [tok |-> <<>>, q |-> queue]
    ELSE LET b == Head(queue)
         IN  IF b <= 31 \/ b = 127
             THEN [tok |-> <<ControlToken(b)>>, q |-> Tail(queue)]
             ELSE IF b = 27
             THEN (IF Len(queue) = 1 THEN [tok |-> <<>>, q |-> queue]
                   ELSE IF queue[2] = 91 THEN SequenceToken(queue, 91)
                   ELSE IF queue[2] = 79 THEN SequenceToken(queue, 79)
                   ELSE [tok |-> <<(<<"Esc">>)>>, q |-> Tail(queue)])
             ELSE [tok |-> <<(<<"Byte", b>>)>>, q |-> Tail(queue)]

\* `while let Some(tok) = parse_next(&mut q)` of main: print each token, stop
\* after the Ctrl-C token
RECURSIVE ParseLoop(_, _)
ParseLoop(queue, out) ==
    LET r == parse_next(queue)
    IN  IF r.tok = <<>> THEN [printed |-> out, q |-> r.q, ctrl_c |-> FALSE]
        ELSE IF r.tok[1] = <<"Ctrl", "C">>
        THEN [printed |-> Append(out, r.tok[1]), q |-> r.q, ctrl_c |-> TRUE]
        ELSE ParseLoop(r.q, Append(out, r.tok[1]))

\* the main program of src/main.rs is not running
Idle ==
    /\ span = <<>>
    /\ info = <<>>
    /\ max_inputs = DEFAULT_MAX_INPUTS
    /\ raw_mode = FALSE
    /\ mouse_capture = FALSE
    /\ cursor_hidden = FALSE
    /\ stdin_buf = <<>>
    /\ buffer = <<>>
    /\ ready = <<>>
    /\ last_byte_at = <<>>
    /\ pc = "off"
    /\ poll_timeout_ms = 0
    /\ waited = 0
    /\ intr = 0
    /\ result = "none"
    /\ emitted = <<>>
    /\ pushed = <<>>
    /\ since_append = 0
    /\ head_age = 0
    /\ late = FALSE
    /\ eff0 = 0
    /\ poll_duration = from_millis(0)
    /\ requested_ms = 0
    /\ eof = FALSE
    /\ TuiOff
    /\ total_waited = 0

\* 'a'; Ctrl-C; 'a' Ctrl-C 'b'; ESC '[' 'A'; ESC 'O' 'P'; ESC;
\* ESC '[' '<' '0' ';' '1' ';' '1' 'M'
DbgScripts ==
    { <<97>>, <<3>>, <<97, 3, 98>>, <<27, 91, 65>>, <<27, 79, 80>>, <<27>>,
      <<27, 91, 60, 48, 59, 49, 59, 49, 77>> }

\* main of debug_rust_only up to its loop: RawMode::new when stdin is a tty,
\* enable_capabilities(out, true, true)
InitDbg ==
    /\ Idle
    /\ nonblocking \in BOOLEAN
    /\ script \in DbgScripts
    /\ sent = 0
    /\ fdq = <<>>
    /\ d_pc = "poll"
    /\ q = <<>>
    /\ printed = <<>>
    /\ modes = {2004, 1000, 1006}
    /\ termios \in {"raw", "orig"}

\* cleanup_capabilities, then main returns Ok and RawMode is dropped
DbgCleanExit ==
    /\ modes' = modes \ {2004, 1000}
    /\ termios' = "orig"
    /\ d_pc' = "done"

\* main returns Err: RawMode is dropped, nothing is written
DbgErrExit ==
    /\ modes' = modes
    /\ termios' = "orig"
    /\ d_pc' = "failed"

\* poll reports input and read returns it: the bytes join q and are parsed
DbgRead ==
    /\ d_pc = "poll"
    /\ fdq # <<>>
    /\ LET r == ParseLoop(q \o fdq, <<>>)
       IN  /\ printed' = printed \o r.printed
           /\ q' = r.q
           /\ IF r.ctrl_c THEN DbgCleanExit ELSE UNCHANGED <<d_pc, modes, termios>>
    /\ fdq' = <<>>
    /\ UNCHANGED <<tui, decoder, term, max_inputs, nonblocking, script, sent, stdin_buf,
                   reader, pc, poll_timeout_ms, waited, intr, result, history>>

\* read returns Ok(0): end of stream
DbgEof ==
    /\ d_pc = "poll"
    /\ fdq = <<>>
    /\ sent = Len(script)
    /\ DbgCleanExit
    /\ UNCHANGED <<tui, q, printed, decoder, term, max_inputs, nonblocking, script, sent,
                   fdq, stdin_buf, reader, pc, poll_timeout_ms, waited, intr, result,
                   history>>

\* poll fails with EINTR, or read with Interrupted or WouldBlock: `continue`
DbgContinue ==
    /\ d_pc = "poll"
    /\ intr < MaxIntr
    /\ intr' = intr + 1
    /\ UNCHANGED <<tui, dbg, decoder, term, max_inputs, nonblocking, script, sent, fdq,
                   stdin_buf, reader, pc, poll_timeout_ms, waited, result, history>>

\* poll fails with another errno, or read with another error
DbgFatal ==
    /\ d_pc = "poll"
    /\ DbgErrExit
    /\ UNCHANGED <<tui, q, printed, decoder, term, max_inputs, nonblocking, script, sent,
                   fdq, stdin_buf, reader, pc, poll_timeout_ms, waited, intr, result,
                   history>>

\* the terminal sends bytes while the program runs
DbgArrive ==
    /\ d_pc = "poll"
    /\ \E k \in 1..3 : Arrive(k)

NextDbg ==
    \/ DbgArrive
    \/ DbgRead
    \/ DbgEof
    \/ DbgContinue
    \/ DbgFatal

SpecDbg == InitDbg /\ [][NextDbg]_vars
----------------------------------------------------------------------------
(* The segmenter alone: bytes are submitted to a pending CSI prefix faster  *)
(* than the flush timeout (no time passes), and completed events are taken. *)

MaxCsiBytes == 70

InitCsi ==
    /\ Init
    /\ nonblocking
    /\ script = <<27, 91>>

\* submit(byte): push_byte on the reader
Submit(byte) ==
    /\ ready = <<>>
    /\ pushed = <<>> \/ buffer # <<>>
    /\ Len(pushed) < MaxCsiBytes
    /\ LET r == push_byte(buffer, ready, byte)
       IN  /\ buffer' = r.buffer
           /\ ready' = r.ready
           /\ last_byte_at' = r.last_byte_at
    /\ pushed' = Append(pushed, byte)
    /\ since_append' = 0
    /\ head_age' = IF buffer = <<>> THEN 0 ELSE head_age
    /\ UNCHANGED <<tui, dbg, decoder, term, max_inputs, nonblocking, script, sent, fdq, stdin_buf, pc, poll_timeout_ms,
                   waited, intr, result, emitted, late, eff0, poll_duration, requested_ms, eof, total_waited>>

\* the CSI prefix of the script first; then '0' (a parameter byte), 'A' or
\* '~', and as the first byte after the prefix also the bytes next to the ends
\* of 0x40..=0x7E: '?', '@', DEL, and '['
NextBytes ==
    IF Len(pushed) < Len(script) THEN {script[Len(pushed) + 1]}
    ELSE IF Len(pushed) = Len(script) THEN {48, 63, 127, 64, 65, 91, 126}
    ELSE {48, 65, 126}

\* poll_next(0) with an event in the ready queue
TakeReady ==
    /\ ready # <<>>
    /\ CallDrain \/ CallLoop

NextCsi ==
    \/ \E byte \in NextBytes : Submit(byte)
    \/ TakeReady

SpecCsi == InitCsi /\ [][NextCsi]_vars

----------------------------------------------------------------------------
(* Segmenter and decoder in a row: ESC and the bytes that follow it are     *)
(* pushed one at a time, the event that push_byte completes is taken from   *)
(* the ready queue and decoded.                                             *)

InitAlt ==
    /\ Init
    /\ nonblocking
    /\ script = <<27>>

\* ESC first, then any byte but '[', then ASCII, continuation and lead bytes
AltBytes ==
    IF pushed = <<>> THEN {27}
    ELSE IF Len(pushed) = 1 THEN (0..255) \ {91}
    ELSE {65, 128, 159, 169, 191, 195}

\* poll_next pops the ready queue and run hands the bytes to
\* process_event_bytes
PopReady ==
    /\ ready # <<>>
    /\ span = <<>>
    /\ span' = Head(ready)
    /\ ready' = Tail(ready)
    /\ UNCHANGED <<tui, dbg, info, term, max_inputs, nonblocking, script, sent, fdq, stdin_buf,
                   buffer, last_byte_at, pc, poll_timeout_ms, waited, intr, result,
                   history>>

NextAlt ==
    \/ \E byte \in AltBytes : Submit(byte)
    \/ PopReady
    \/ process_event_bytes

SpecAlt == InitAlt /\ [][NextAlt]_vars

----------------------------------------------------------------------------
(* effective_timeout alone: bytes are pushed, time passes one ms at a time, *)
(* and poll_next computes its effective timeout from the reader as it is,   *)
(* also when the flush deadline passes between its flush test and this      *)
(* computation.                                                             *)

InitTimeout ==
    /\ Init
    /\ nonblocking
    /\ script = <<27, 91>>

\* 'A' (an event at once) or ESC, then '['
TimeoutBytes ==
    IF pushed = <<>> THEN {27, 65}
    ELSE IF Len(pushed) = 1 THEN {91}
    ELSE {}

\* the timeouts of run (Duration::ZERO, DRAW_TIMEOUT), one below and one at
\* the flush timeout
Requests == {0, 10, FLUSH_TIMEOUT, DRAW_TIMEOUT}

\* one ms passes between two calls (Instant::elapsed grows)
Elapse ==
    /\ pc = "loop"
    /\ last_byte_at # <<>>
    /\ last_byte_at[1] < FLUSH_TIMEOUT
    /\ last_byte_at' = <<last_byte_at[1] + 1>>
    /\ since_append' = Min(since_append + 1, FLUSH_TIMEOUT)
    /\ head_age' = IF buffer = <<>> THEN head_age ELSE Min(head_age + 1, FLUSH_TIMEOUT)
    /\ UNCHANGED <<tui, dbg, decoder, term, max_inputs, nonblocking, script, sent, fdq, stdin_buf,
                   buffer, ready, pc, poll_timeout_ms, waited, intr, result, emitted,
                   pushed, late, eff0, poll_duration, requested_ms, eof, total_waited>>

\* let effective_timeout = self.effective_timeout(timeout) and the lines up
\* to the wait loop
CallEffective(timeout) ==
    /\ pc = "loop"
    /\ EnterWait(timeout)
    /\ UNCHANGED <<tui, dbg, decoder, max_inputs, nonblocking, script, sent, fdq, stdin_buf,
                   last_byte_at, intr, pushed, since_append, head_age, late>>

NextTimeout ==
    \/ \E byte \in TimeoutBytes : pc = "loop" /\ Submit(byte)
    \/ Elapse
    \/ \E timeout \in Requests : CallEffective(timeout)

SpecTimeout == InitTimeout /\ [][NextTimeout]_vars

----------------------------------------------------------------------------
(* The segmenter on bytes of every class: any byte may start the input, and *)
(* bytes are pushed until an event is complete.                             *)

MaxSegBytes == 4

\* NUL, ESC, 'A', 'O', '[', DEL; the ends of the continuation bytes, of the
\* two-, three- and four-byte leads, and of the bytes that lead nothing
SegBytes == {0, 27, 65, 79, 91, 127, 128, 191, 192, 223, 224, 239, 240, 247, 248, 255}

InitSeg ==
    /\ Init
    /\ nonblocking
    /\ script = <<27>>

SegSubmit(byte) ==
    /\ Len(pushed) < MaxSegBytes
    /\ Submit(byte)

NextSeg ==
    \/ \E byte \in SegBytes : SegSubmit(byte)
    \/ TakeReady

SpecSeg == InitSeg /\ [][NextSeg]_vars

----------------------------------------------------------------------------
(* duration_to_poll_timeout alone, on durations below, at and above each of *)
(* its thresholds.                                                          *)

MaxSecs == 2147485

\* 0 s, 1 s, 2 s, a minute, an hour, a day, and the seconds around
\* i32::MAX ms = 2147483 s 647 ms
PollSecs == {0, 1, 2, 60, 3600, 86400, 2147482, 2147483, 2147484, MaxSecs}

\* 0 ns, 1 ns, the nanoseconds around 1 ms, 2 ms, 35 ms, 647 ms and 1 s
PollNanos ==
    {0, 1, 999999, 1000000, 1000001, 1999999, 2000000, 34999999, 35000000,
     646999999, 647000000, 647000001, 999999999}

Durations == [secs : PollSecs, nanos : PollNanos]

InitPoll ==
    /\ Init
    /\ nonblocking
    /\ script = <<27>>

\* let poll_timeout_ms = duration_to_poll_timeout(effective_timeout)
Convert ==
    /\ \E d \in Durations :
         /\ poll_duration' = d
         /\ poll_timeout_ms' = duration_to_poll_timeout(d)
    /\ UNCHANGED <<tui, dbg, decoder, term, max_inputs, nonblocking, script, sent, fdq, stdin_buf,
                   reader, pc, waited, intr, result, emitted, pushed, since_append,
                   head_age, late, eff0, requested_ms, eof, total_waited>>

NextPoll == Convert

SpecPoll == InitPoll /\ [][NextPoll]_vars

----------------------------------------------------------------------------
(* TuiApp (src/src/lib.rs): init_terminal and restore_terminal.  A terminal  *)
(* mode is kept with the stream its control sequence was written to; raw    *)
(* mode belongs to the tty itself.  Every fallible call may fail; a call    *)
(* that fails leaves its mode as it was.                                    *)

\* ViewportMode::writer: the stream init_terminal writes to
writer(v) == IF v = "AltStderr" THEN "Stderr" ELSE "Stdout"

\* ViewportMode::is_inline
is_inline(v) == v = "Inline"

\* what a successful step of init_terminal or restore_terminal acts on
StepMode(step, stream) ==
    IF step = "raw" THEN {<<"Tty", "raw">>}
    ELSE IF step \in {"mouse", "alt", "cursor"} THEN {<<stream, step>>}
    ELSE {}

\* the fallible calls of init_terminal in order; each is followed by `?`
init_steps(v, cm, hc) ==
    <<"raw">> \o (IF cm THEN <<"mouse">> ELSE <<>>)
              \o (IF ~is_inline(v) THEN <<"alt">> ELSE <<>>)
              \o <<"with_options", "clear">>
              \o (IF hc THEN <<"cursor">> ELSE <<>>)

\* the calls of restore_terminal after DisableMouseCapture; each is followed
\* by `?` (MoveTo and Clear stand for the inline branch when size() is Ok)
restore_steps(v, hc, size_ok) ==
    (IF ~is_inline(v) THEN <<"alt">> ELSE IF size_ok THEN <<"move_clear">> ELSE <<>>)
        \o (IF hc THEN <<"cursor">> ELSE <<>>)
        \o <<"flush">>

Viewports == {"Inline", "AltStdout", "AltStderr"}

InitTui ==
    /\ Idle
    /\ d_pc = "off"
    /\ q = <<>>
    /\ printed = <<>>
    /\ modes = {}
    /\ termios = "orig"
    /\ nonblocking = FALSE
    /\ script = <<>>
    /\ sent = 0
    /\ fdq = <<>>

\* TuiAppBuilder::inline / alternate_screen_backend / capture_mouse /
\* hide_cursor, then build
Build ==
    /\ t_pc = "off"
    /\ t_pc' = "built"
    /\ viewport' \in Viewports
    /\ capture_mouse' \in BOOLEAN
    /\ hide_cursor' \in BOOLEAN
    /\ UNCHANGED <<enabled, disabled>>
    /\ UNCHANGED <<dbg, decoder, term, max_inputs, nonblocking, script, sent, fdq, stdin_buf,
                   reader, pc, poll_timeout_ms, waited, intr, result, history>>

\* init_terminal with its first n fallible calls succeeding: the modes they
\* switch on, and whether the function returned Ok
init_terminal(v, cm, hc, n) ==
    LET steps == init_steps(v, cm, hc)
    IN  [on |-> UNION {StepMode(steps[i], writer(v)) : i \in 1..n},
         ok |-> n = Len(steps)]

\* TuiApp::init
TuiInit ==
    /\ t_pc = "built"
    /\ \E n \in 0..Len(init_steps(viewport, capture_mouse, hide_cursor)) :
         LET r == init_terminal(viewport, capture_mouse, hide_cursor, n)
         IN  /\ enabled' = r.on
             /\ t_pc' = IF r.ok THEN "ready" ELSE "init_failed"
    /\ UNCHANGED <<viewport, capture_mouse, hide_cursor, disabled>>
    /\ UNCHANGED <<dbg, decoder, term, max_inputs, nonblocking, script, sent, fdq, stdin_buf,
                   reader, pc, poll_timeout_ms, waited, intr, result, history>>

\* restore_terminal: disable_raw_mode and DisableMouseCapture only log their
\* error, the later calls return it; every sequence goes to io::stdout()
restore_terminal(v, cm, hc, raw_ok, mouse_ok, size_ok, n) ==
    LET steps == restore_steps(v, hc, size_ok)
    IN  [off |-> (IF raw_ok THEN StepMode("raw", "Stdout") ELSE {})
                 \cup (IF cm /\ mouse_ok THEN StepMode("mouse", "Stdout") ELSE {})
                 \cup UNION {StepMode(steps[i], "Stdout") : i \in 1..n},
         ok |-> n = Len(steps)]

\* TuiApp::restore
TuiRestore ==
    /\ t_pc = "ready"
    /\ \E raw_ok \in BOOLEAN, mouse_ok \in BOOLEAN, size_ok \in BOOLEAN :
       \E n \in 0..Len(restore_steps(viewport, hide_cursor, size_ok)) :
         LET r == restore_terminal(viewport, capture_mouse, hide_cursor,
                                   raw_ok, mouse_ok, size_ok, n)
         IN  /\ disabled' = r.off
             /\ t_pc' = IF r.ok THEN "restored" ELSE "restore_failed"
    /\ UNCHANGED <<viewport, capture_mouse, hide_cursor, enabled>>
    /\ UNCHANGED <<dbg, decoder, term, max_inputs, nonblocking, script, sent, fdq, stdin_buf,
                   reader, pc, poll_timeout_ms, waited, intr, result, history>>

NextTui == Build \/ TuiInit \/ TuiRestore

SpecTui == InitTui /\ [][NextTui]_vars

----------------------------------------------------------------------------
(* Claims *)

Bytes(events) == Flatten([i \in 1..Len(events) |-> events[i].bytes])

Quiet == sent = Len(script) /\ fdq = <<>> /\ stdin_buf = <<>>

\* C1: a lone ESC in the pending buffer, with no further byte arriving, is
\* eventually returned by poll_next as one event of exactly the byte 0x1B, which
\* decodes to Esc without modifiers (unless a fatal I/O error ends the run).
C1_LoneEsc ==
    (buffer = <<27>> /\ Quiet)
        ~> (\/ pc = "failed"
            \/ /\ buffer = <<>>
               /\ emitted # <<>>
               /\ emitted[Len(emitted)].bytes = <<27>>
               /\ interpret_bytes(emitted[Len(emitted)].bytes) = Interp(<<"Esc">>, {}))

\* C2: when '[' and 'A' become readable less than flush_timeout after ESC was
\* appended, poll_next never returns the ESC as an event of its own, however the
\* bytes are chunked and however long the caller stays away.
C2_NeverSplit ==
    (script = <<27, 91, 65>> /\ ~late)
        => \A i \in 1..Len(emitted) : emitted[i].bytes # <<27>>

\* C3: once the last byte has arrived on the descriptor, every byte that arrived
\* is eventually part of an event returned by poll_next, with no further input
\* (unless a fatal I/O error ends the run).
C3_NoWithholding ==
    (sent = Len(script)) ~> (pc = "failed" \/ Bytes(emitted) = script)

\* C4: the events returned so far, then the ready queue, then the pending buffer
\* are exactly the bytes pushed so far, in order.
C4_Conservation ==
    Bytes(emitted) \o Flatten(ready) \o buffer = pushed

C4_Witness ==
    /\ Len(emitted) >= 2
    /\ emitted[1].kind = "flush"
    /\ emitted[2].kind = "ready"
    /\ pushed = script

\* the width the high bits of a UTF-8 lead byte announce
LeadWidth(b) ==
    IF b >= 192 /\ b <= 223 THEN 2
    ELSE IF b >= 224 /\ b <= 239 THEN 3
    ELSE 4

IsLead(b) == b >= 192 /\ b <= 247

\* C5: without a timeout flush, an event that starts with a UTF-8 lead byte of
\* width w holds exactly w bytes (no event is cut before the w-th byte), and
\* 0xC3 0xA9 pushed one byte at a time gives the single event Char(e-acute)
\* without modifiers.
C5_Utf8Whole ==
    /\ \A i \in 1..Len(emitted) :
          (emitted[i].kind = "ready" /\ IsLead(emitted[i].bytes[1]))
              => Len(emitted[i].bytes) = LeadWidth(emitted[i].bytes[1])
    /\ (script = <<195, 169>> /\ \A i \in 1..Len(emitted) : emitted[i].kind = "ready")
          => \/ emitted = <<>>
             \/ /\ Len(emitted) = 1
                /\ emitted[1].bytes = <<195, 169>>
                /\ interpret_bytes(emitted[1].bytes) = Interp(<<"Char", 233>>, {})

C5_Witness ==
    /\ script = <<195, 169>>
    /\ Len(emitted) = 1
    /\ emitted[1].kind = "ready"
    /\ emitted[1].bytes = script

\* C6: a pending buffer that starts with a UTF-8 lead byte and is shorter than
\* its width is never returned by a timeout flush.
C6_NoUtf8Flush ==
    \A i \in 1..Len(emitted) :
        emitted[i].kind = "flush" => emitted[i].bytes[1] < 128

\* C7: a pending CSI prefix never reaches 64 bytes: at 64 bytes without a
\* terminator it is emitted as an event.
C7_BoundedLookahead ==
    (Len(buffer) >= 2 /\ buffer[1] = 27 /\ buffer[2] = 91)
        => Len(buffer) < CSI_LOOKAHEAD

\* C8: every timeout flush happens at least flush_timeout after the latest byte
\* was appended to the pending buffer.
C8_NoPrematureFlush ==
    \A i \in 1..Len(emitted) :
        emitted[i].kind = "flush" => emitted[i].idle >= FLUSH_TIMEOUT

C8_Witness ==
    /\ emitted # <<>>
    /\ emitted[1].kind = "flush"
    /\ Len(emitted[1].bytes) = 2

\* C9: across interruptions, one poll_next call is blocked in poll() for no
\* longer in total than the effective timeout it computed.
C9_DeadlineKept ==
    total_waited <= eff0

Transient == PollEINTR \/ ReadInterrupted \/ ReadWouldBlock

\* C10: EINTR from poll, and Interrupted or WouldBlock from read, never make
\* poll_next return an error, and leave the pending buffer, the ready queue and
\* the bytes already read from the descriptor as they were.
C10_TransientNotSurfaced ==
    [][Transient => /\ pc' # "failed"
                    /\ result' # "err"
                    /\ buffer' = buffer
                    /\ ready' = ready
                    /\ stdin_buf' = stdin_buf]_vars

C10_Witness ==
    /\ intr > 0
    /\ pc = "tail"
    /\ buffer # <<>>

Fatal == PollFatal \/ ReadFatal

\* C11: a poll error other than EINTR, or a read error other than Interrupted
\* and WouldBlock, makes poll_next return the error in that very step, and
\* once run has failed the thread makes no further call: it stays where it is
\* and the reader, Stdin's buffer and the list of events no longer change.
C11_FatalPropagates ==
    [][/\ Fatal => (pc' = "failed" /\ result' = "err" /\ emitted' = emitted)
       /\ pc = "failed" => /\ pc' = "failed"
                           /\ UNCHANGED <<reader, stdin_buf, emitted, pushed, result>>]_vars

C11_Witness ==
    /\ pc = "failed"
    /\ result = "err"
    /\ fdq # <<>>
    /\ buffer # <<>>

\* C12: whenever run has returned, raw mode and mouse capture are off and the
\* cursor is shown.
C12_ModesRestored ==
    pc \in {"done", "failed"} => (~raw_mode /\ ~mouse_capture /\ ~cursor_hidden)

Decoded == info # <<>>
Guess == info[1].guess
Press(code, modifiers) == [kind |-> "Press", code |-> code, modifiers |-> modifiers]
Unknown == [kind |-> "Unknown", code |-> <<"Unknown">>, modifiers |-> {}]

\* C14: a single byte b in 0x20..=0x7E is decoded as the character b with no
\* modifiers.
C14_Printable ==
    (Decoded /\ Len(span) = 1 /\ span[1] \in 32..126)
        => Guess = Press(<<"Char", span[1]>>, {})

C14_Witness ==
    /\ Decoded
    /\ span = <<32>>
    /\ Guess = Press(<<"Char", 32>>, {})

\* C15 as stated: every single byte b in 0x01..=0x1A is decoded as the
\* character b+0x60 with Control.
C15_ControlLetters_AsStated ==
    (Decoded /\ Len(span) = 1 /\ span[1] \in 1..26)
        => Guess = Press(<<"Char", span[1] + 96>>, {"CONTROL"})

\* C15: every single byte b in 0x01..=0x1A other than 0x08 (Backspace+Control),
\* 0x09 (Tab), 0x0A and 0x0D (Enter) is decoded as the character b+0x60 with
\* Control.
C15_ControlLetters ==
    (Decoded /\ Len(span) = 1 /\ span[1] \in (1..26) \ {8, 9, 10, 13})
        => Guess = Press(<<"Char", span[1] + 96>>, {"CONTROL"})

C15_Witness ==
    /\ Decoded
    /\ span = <<26>>
    /\ Guess = Press(<<"Char", 122>>, {"CONTROL"})

\* C16: 0x00 is Null, 0x0D and 0x0A Enter, 0x09 Tab, 0x7F Backspace, 0x1B Esc,
\* all without modifiers; 0x08 is Backspace with Control; 0x1C..=0x1F are the
\* characters b+0x60 with Control.
C16_SpecialKeys ==
    (Decoded /\ Len(span) = 1) =>
        LET b == span[1]
        IN  /\ b = 0 => Guess = Press(<<"Null">>, {})
            /\ b \in {13, 10} => Guess = Press(<<"Enter">>, {})
            /\ b = 9 => Guess = Press(<<"Tab">>, {})
            /\ b = 127 => Guess = Press(<<"Backspace">>, {})
            /\ b = 8 => Guess = Press(<<"Backspace">>, {"CONTROL"})
            /\ b = 27 => Guess = Press(<<"Esc">>, {})
            /\ b \in 28..31 => Guess = Press(<<"Char", b + 96>>, {"CONTROL"})

C16_Witness ==
    /\ Decoded
    /\ span = <<8>>
    /\ Guess = Press(<<"Backspace">>, {"CONTROL"})

\* the modifier table of the specification
ModifierTable(m) ==
    CASE m = 2 -> {"SHIFT"}
      [] m = 3 -> {"ALT"}
      [] m = 4 -> {"SHIFT", "ALT"}
      [] m = 5 -> {"CONTROL"}
      [] m = 6 -> {"SHIFT", "CONTROL"}
      [] m = 7 -> {"ALT", "CONTROL"}
      [] m = 8 -> {"SHIFT", "ALT", "CONTROL"}

\* what the specification says about the modifiers of a guess decoded from
\* the parameters ps
ModifiersAsSpecified(ps, modifiers) ==
    /\ Len(ps) < 2 => modifiers = {}
    /\ (Len(ps) >= 2 /\ ps[Len(ps)] \in 2..8) => modifiers = ModifierTable(ps[Len(ps)])

NavKey(f) ==
    CASE f = 65 -> "Up" [] f = 66 -> "Down" [] f = 67 -> "Right"
      [] f = 68 -> "Left" [] f = 72 -> "Home" [] f = 70 -> "End"

\* C17: ESC '[' params final with final in A B C D H F is Up, Down, Right,
\* Left, Home, End; without modifiers when there are fewer than two
\* parameters, else with the modifiers the table gives for the last parameter.
C17_Navigation ==
    \A ps \in NavParams, f \in NavFinals :
        (Decoded /\ span = Csi(ps, f)) =>
            /\ Guess.kind = "Press"
            /\ Guess.code = <<NavKey(f)>>
            /\ ModifiersAsSpecified(ps, Guess.modifiers)

C17_Witness ==
    /\ Decoded
    /\ span = <<27, 91, 49, 59, 53, 65>>
    /\ Guess = Press(<<"Up">>, {"CONTROL"})

TildeKey(k) ==
    CASE k \in {1, 7} -> <<"Home">>
      [] k = 2 -> <<"Insert">>
      [] k = 3 -> <<"Delete">>
      [] k \in {4, 8} -> <<"End">>
      [] k = 5 -> <<"PageUp">>
      [] k = 6 -> <<"PageDown">>
      [] k \in 11..15 -> <<"F", k - 10>>
      [] k \in 17..21 -> <<"F", k - 11>>
      [] k \in 23..24 -> <<"F", k - 12>>
      [] OTHER -> <<>>

\* C18: ESC '[' p1 [; .. ; m] '~' is the key the table gives for p1, with the
\* modifiers the table gives for the last of two or more parameters, and has
\* no interpretation when the table has no key for p1 (16 and 22 included).
C18_Tilde ==
    \A ps \in TildeParams :
        (Decoded /\ span = Csi(ps, 126)) =>
            IF TildeKey(ps[1]) = <<>>
            THEN Guess = Unknown
            ELSE /\ Guess.kind = "Press"
                 /\ Guess.code = TildeKey(ps[1])
                 /\ ModifiersAsSpecified(ps, Guess.modifiers)

C18_Witness ==
    /\ Decoded
    /\ span = <<27, 91, 49, 55, 59, 53, 126>>
    /\ Guess = Press(<<"F", 6>>, {"CONTROL"})

\* C13: whenever main of debug_rust_only has returned, raw mode has been put
\* back to the original termios and no reporting mode that was switched on at
\* the start (2004, 1000, 1006) is still on.
C13_SessionBracketing ==
    d_pc \in {"done", "failed"} => (termios = "orig" /\ modes = {})

\* C19: ESC '[' '<' b ';' x ';' y 'M' is decoded as a mouse event, pressed,
\* at x, y, with button b mod 8 and the modifier bits 3..5 of b, and the same
\* span ending in 'm' as the released one; by interpret_bytes, or else as the
\* one token debug_rust_only prints for the span.
C19_SgrMouse ==
    (Decoded /\ Len(span) > 3 /\ span[3] = 60) =>
        \A b \in 0..MaxButton, x \in Coordinates, y \in Coordinates, f \in {77, 109} :
            span = SgrMouse(b, x, y, f) =>
                LET mouse == [press |-> (f = 77), x |-> x, y |-> y,
                              mods |-> (b \div 8) % 8, btn |-> b % 8]
                IN  \/ Guess = Press(<<"Mouse", mouse>>, {})
                    \/ ParseLoop(span, <<>>).printed = <<(<<"Mouse", mouse>>)>>

\* C20: ESC '[' '2' '0' '0' '~' is decoded as PasteStart and ESC '[' '2' '0'
\* '1' '~' as PasteEnd; by interpret_bytes, or else as the one token
\* debug_rust_only prints for the span.
C20_PasteMarkers ==
    /\ (Decoded /\ span = <<27, 91, 50, 48, 48, 126>>) =>
           \/ Guess.code = <<"PasteStart">>
           \/ ParseLoop(span, <<>>).printed = <<(<<"PasteStart">>)>>
    /\ (Decoded /\ span = <<27, 91, 50, 48, 49, 126>>) =>
           \/ Guess.code = <<"PasteEnd">>
           \/ ParseLoop(span, <<>>).printed = <<(<<"PasteEnd">>)>>

\* the SS3 table of the specification: final byte to key
Ss3Finals == {80, 81, 82, 83, 65, 66, 67, 68, 72, 70}

Ss3Key(f) ==
    CASE f = 80 -> <<"F", 1>>
      [] f = 81 -> <<"F", 2>>
      [] f = 82 -> <<"F", 3>>
      [] f = 83 -> <<"F", 4>>
      [] f = 65 -> <<"Up">>
      [] f = 66 -> <<"Down">>
      [] f = 67 -> <<"Right">>
      [] f = 68 -> <<"Left">>
      [] f = 72 -> <<"Home">>
      [] f = 70 -> <<"End">>

\* C21: a 3-byte span ESC 'O' f is decoded as F1..F4 for f = P, Q, R, S, as
\* Up, Down, Right, Left for f = A, B, C, D, as Home for H and End for F, always
\* without modifiers, and has no interpretation for any other f.
C21_Ss3Keys ==
    (Decoded /\ span \in Ss3Spans) =>
        IF span[3] \in Ss3Finals
        THEN Guess = Press(Ss3Key(span[3]), {})
        ELSE Guess = Unknown

C21_Witness ==
    /\ Decoded
    /\ span = <<27, 79, 72>>
    /\ Guess = Press(<<"Home">>, {})

\* the key tables of the specification, one set of canonical byte sequences for
\* each encoding family
SingleEntries == {<<b>> : b \in 0..127}
CsiFinalEntries == {Csi(<<>>, f) : f \in NavFinals \cup {90}}
TildeEntries == {Csi(<<k>>, 126) : k \in {k \in 0..MaxKeyId : TildeKey(k) # <<>>}}
Ss3Entries == {<<27, 79, f>> : f \in Ss3Finals}
Families == {SingleEntries, CsiFinalEntries, TildeEntries, Ss3Entries}

SingleKey(b) ==
    CASE b = 0 -> Press(<<"Null">>, {})
      [] b \in {13, 10} -> Press(<<"Enter">>, {})
      [] b = 9 -> Press(<<"Tab">>, {})
      [] b = 127 -> Press(<<"Backspace">>, {})
      [] b = 8 -> Press(<<"Backspace">>, {"CONTROL"})
      [] b = 27 -> Press(<<"Esc">>, {})
      [] b \in 32..126 -> Press(<<"Char", b>>, {})
      [] OTHER -> Press(<<"Char", b + 96>>, {"CONTROL"})

\* the key of a table entry: its code and modifiers
TableKey(entry) ==
    IF entry \in SingleEntries THEN SingleKey(entry[1])
    ELSE IF entry \in Ss3Entries THEN Press(Ss3Key(entry[3]), {})
    ELSE IF entry = Csi(<<>>, 90) THEN Press(<<"BackTab">>, {"SHIFT"})
    ELSE IF entry \in CsiFinalEntries THEN Press(<<NavKey(entry[3])>>, {})
    ELSE Press(TildeKey(CHOOSE k \in 0..MaxKeyId : entry = Csi(<<k>>, 126)), {})

\* the entries that the tables themselves give the same key
Aliases ==
    { {<<13>>, <<10>>},
      {Csi(<<1>>, 126), Csi(<<7>>, 126)},
      {Csi(<<4>>, 126), Csi(<<8>>, 126)} }

\* C22 as stated: every table entry's canonical byte sequence decodes to its
\* key, and no other entry of the same family decodes to the same key.
C22_Injective_AsStated ==
    \A family \in Families :
        (Decoded /\ span \in family) =>
            /\ Guess = TableKey(span)
            /\ \A other \in family \ {span} : GuessInfo_from_bytes(other) # Guess

\* C22: every table entry's canonical byte sequence decodes to its key, and
\* two distinct entries of one family decode to the same key only when they are
\* 0x0D and 0x0A (Enter), '~' parameters 1 and 7 (Home) or 4 and 8 (End).
C22_Injective ==
    \A family \in Families :
        (Decoded /\ span \in family) =>
            /\ Guess = TableKey(span)
            /\ \A other \in family \ {span} :
                   GuessInfo_from_bytes(other) = Guess => {span, other} \in Aliases

C22_Witness ==
    /\ Decoded
    /\ span = Csi(<<7>>, 126)
    /\ Guess = Press(<<"Home">>, {})
    /\ GuessInfo_from_bytes(Csi(<<1>>, 126)) = Guess

\* the bytes of one well-formed UTF-8 character (Unicode, table 3-7)
OneChar(s) ==
    LET Cont(i) == s[i] \in 128..191
    IN  \/ (Len(s) = 1 /\ s[1] \in 0..127)
        \/ (Len(s) = 2 /\ s[1] \in 194..223 /\ Cont(2))
        \/ (Len(s) = 3 /\ s[1] = 224 /\ s[2] \in 160..191 /\ Cont(3))
        \/ (Len(s) = 3 /\ s[1] \in (225..236) \cup {238, 239} /\ Cont(2) /\ Cont(3))
        \/ (Len(s) = 3 /\ s[1] = 237 /\ s[2] \in 128..159 /\ Cont(3))
        \/ (Len(s) = 4 /\ s[1] = 240 /\ s[2] \in 144..191 /\ Cont(3) /\ Cont(4))
        \/ (Len(s) = 4 /\ s[1] \in 241..243 /\ Cont(2) /\ Cont(3) /\ Cont(4))
        \/ (Len(s) = 4 /\ s[1] = 244 /\ s[2] \in 128..143 /\ Cont(3) /\ Cont(4))

\* the code point of one well-formed UTF-8 character
CodePoint(s) ==
    CASE Len(s) = 1 -> s[1]
      [] Len(s) = 2 -> (s[1] - 192) * 64 + (s[2] - 128)
      [] Len(s) = 3 -> (s[1] - 224) * 4096 + (s[2] - 128) * 64 + (s[3] - 128)
      [] Len(s) = 4 -> (s[1] - 240) * 262144 + (s[2] - 128) * 4096
                           + (s[3] - 128) * 64 + (s[4] - 128)

\* the width that the byte after ESC announces
AltWidth(c) ==
    IF c < 128 THEN 1
    ELSE IF c \in 192..223 THEN 2
    ELSE IF c \in 224..239 THEN 3
    ELSE IF c \in 240..247 THEN 4
    ELSE 1

\* C23: when ESC and a byte c other than '[' and 'O' have been pushed, no
\* event exists before 1 + width(c) bytes are there, and with the last of them
\* exactly these bytes become one event and the buffer is empty; the event is
\* decoded as the character after ESC with Alt when the bytes after ESC are one
\* well-formed UTF-8 character.
C23_AltPrefixed ==
    (Len(pushed) >= 2 /\ pushed[1] = ESC /\ pushed[2] \notin {91, 79}) =>
        LET n == 1 + AltWidth(pushed[2])
        IN  /\ Len(pushed) <= n
            /\ Len(pushed) < n => (buffer = pushed /\ ready = <<>> /\ span = <<>>)
            /\ Len(pushed) = n =>
                   /\ buffer = <<>>
                   /\ \/ (ready = <<pushed>> /\ span = <<>>)
                      \/ (ready = <<>> /\ span = pushed)
            /\ (Decoded /\ OneChar(Tail(span))) =>
                   Guess = Press(<<"Char", CodePoint(Tail(span))>>, {"ALT"})

C23_Witness ==
    /\ pushed = <<27, 195, 169>>
    /\ span = pushed
    /\ buffer = <<>>
    /\ Decoded
    /\ Guess = Press(<<"Char", 233>>, {"ALT"})

\* spans that begin with a byte of 0x80 or more and are not one well-formed
\* UTF-8 character
InvalidUtf8 ==
    {s \in {<<b>> : b \in 128..255} \cup PairSpans \cup LongChars :
        s[1] >= 128 /\ ~OneChar(s)}

\* the spans that the specification calls malformed
Malformed == InvalidUtf8 \cup UnterminatedCsi \cup OtherFinalCsi \cup BadParamCsi

FromHexDigit(c) == IF c \in 48..57 THEN c - 48 ELSE c - 55

\* the bytes that a string of two-digit hexadecimal numbers with single spaces
\* between them stands for, <<>> when the string is not of this form
HexBytes(str) ==
    LET n == (Len(str) + 1) \div 3
        IsHex(c) == c \in (48..57) \cup (65..70)
    IN  IF /\ Len(str) = 3 * n - 1
           /\ \A i \in 1..n : IsHex(str[3 * i - 2]) /\ IsHex(str[3 * i - 1])
           /\ \A i \in 1..(n - 1) : str[3 * i] = 32
        THEN [i \in 1..n |-> 16 * FromHexDigit(str[3 * i - 2]) + FromHexDigit(str[3 * i - 1])]
        ELSE <<>>

\* C24: InputEventInfo::from_bytes gives a result for every non-empty span: a
\* Press or the Unknown guess, the Unknown guess when no interpreter matches
\* (ill-formed UTF-8, a CSI span without final byte, with a final byte outside
\* the table or with a parameter that is not a number), and a hex_string that
\* spells every byte of the span in order.
C24_Total ==
    Decoded =>
        /\ Guess.kind \in {"Press", "Unknown"}
        /\ Guess.kind = "Unknown" => Guess = Unknown
        /\ span \in Malformed => Guess = Unknown
        /\ HexBytes(info[1].hex_string) = span

C24_Witness ==
    /\ Decoded
    /\ span = <<27, 91, 60, 48, 126>>
    /\ Guess = Unknown
    /\ info[1].hex_string = <<49, 66, 32, 53, 66, 32, 51, 67, 32, 51, 48, 32, 55, 69>>
    /\ info[1].escaped_string = <<92, 120, 49, 66, 91, 60, 48, 126>>

\* C25: in every state of the run loop the number of recorded input events is
\* at most max_inputs.
C25_InputBudget ==
    input_count <= max_inputs

\* the events that push_byte has carved off the buffer so far
Extracted ==
    [i \in {j \in 1..Len(emitted) : emitted[j].kind = "ready"} |-> emitted[i].bytes]

\* C26: after push_byte the pending buffer holds no complete event
\* (try_extract_event finds none in it), every event carved off is exactly one
\* complete event, and the events followed by the buffer are the bytes pushed.
C26_NoCompleteEventPending ==
    /\ try_extract_event(buffer) = <<>>
    /\ \A i \in 1..Len(ready) : try_extract_event(ready[i]) = <<Len(ready[i])>>
    /\ \A i \in DOMAIN Extracted : try_extract_event(Extracted[i]) = <<Len(Extracted[i])>>
    /\ Bytes(emitted) \o Flatten(ready) \o buffer = pushed

C26_Witness ==
    /\ pushed = <<65, 27>>
    /\ buffer = <<27>>
    /\ Len(emitted) = 1
    /\ emitted[1].bytes = <<65>>
    /\ emitted[1].kind = "ready"

\* C27: every byte span that poll_next has returned, from the ready queue or
\* by a timeout flush, and every span waiting in the ready queue, holds at
\* least one byte.
C27_EventsNotEmpty ==
    /\ \A i \in 1..Len(emitted) : Len(emitted[i].bytes) >= 1
    /\ \A i \in 1..Len(ready) : Len(ready[i]) >= 1

C27_Witness ==
    /\ Len(emitted) = 2
    /\ emitted[1].kind = "ready"
    /\ emitted[2].kind = "flush"
    /\ emitted[2].bytes = <<27>>
    /\ buffer = <<>>

\* C28: the effective timeout that poll_next computes is the requested timeout
\* when the pending buffer is empty, zero when the buffer is not empty and the
\* flush timeout has passed since the last append, otherwise the smaller of
\* the requested timeout and the rest of the flush timeout; it never exceeds
\* the requested timeout.
C28_EffectiveTimeout ==
    pc = "poll" =>
        /\ buffer = <<>> => eff0 = requested_ms
        /\ (buffer # <<>> /\ since_append >= FLUSH_TIMEOUT) => eff0 = 0
        /\ (buffer # <<>> /\ since_append < FLUSH_TIMEOUT) =>
               /\ eff0 \in {requested_ms, FLUSH_TIMEOUT - since_append}
               /\ eff0 <= FLUSH_TIMEOUT - since_append
        /\ eff0 <= requested_ms

C28_Witness ==
    /\ pc = "poll"
    /\ buffer = <<27>>
    /\ since_append = 30
    /\ requested_ms = DRAW_TIMEOUT
    /\ eff0 = 5

\* the positions after the ESC '[' prefix of the bytes pushed that hold a byte
\* in 0x40..=0x7E
Terminators == {i \in 3..Len(pushed) : pushed[i] \in 64..126}

\* C29: when the bytes pushed start with ESC '[', no event exists while none
\* of the bytes after the prefix is in 0x40..=0x7E; the first such byte ends
\* the event at once, and the event is every byte from the ESC through it.
C29_CsiSpan ==
    (Len(pushed) >= 2 /\ pushed[1] = ESC /\ pushed[2] = 91) =>
        IF Terminators = {}
        THEN buffer = pushed /\ ready = <<>> /\ emitted = <<>>
        ELSE /\ Terminators = {Len(pushed)}
             /\ buffer = <<>>
             /\ \/ (ready = <<pushed>> /\ emitted = <<>>)
                \/ (ready = <<>> /\ Len(emitted) = 1 /\ emitted[1].bytes = pushed)

C29_Witness ==
    /\ pushed = <<27, 91, 63, 48, 48, 126>>
    /\ buffer = <<>>
    /\ ready = <<>>
    /\ Len(emitted) = 1
    /\ emitted[1].bytes = pushed

\* C30: every poll_next call returns, so that run reaches the exit checks of
\* its loop again and again and returns once the timeout has elapsed or the
\* budget of inputs is used up.
C30_LoopTerminates ==
    /\ (pc \in {"poll", "read", "tail"}) ~> (pc \in {"loop", "drain", "failed", "done"})
    /\ <>(pc \in {"failed", "done"})

\* C31: once a read of the input descriptor has returned 0 bytes, run does not
\* poll or read the descriptor again.
C31_EofStopsReading ==
    eof => pc \notin {"poll", "read"}

\* C32: when TuiApp::restore has returned Ok, every mode it has switched off
\* on a stream is a mode TuiApp::init had switched on on that same stream.
C32_RoundTrip ==
    t_pc = "restored" => disabled \subseteq enabled

\* C33: debug_rust_only never prints a bare Esc token directly followed by a
\* Byte token: ESC '[' 'A' is one Key token, ESC 'O' 'P' is one Key token, and
\* an ESC that is alone in the queue stays there and yields no token.
C33_NoBareEscThenBytes ==
    \A i \in 1..(Len(printed) - 1) :
        ~(printed[i] = <<"Esc">> /\ printed[i + 1][1] = "Byte")

\* C34: the ready queue is empty whenever poll_next is entered, is between
\* two of its system calls, or has returned; and whatever byte push_byte is
\* given next, it queues at most one event, and when it queues one the pending
\* buffer is empty afterwards.
C34_ReadyAtMostOne ==
    /\ ready = <<>>
    /\ \A b \in SegBytes :
           LET r == push_byte(buffer, ready, b)
           IN  /\ Len(r.ready) <= 1
               /\ r.ready # <<>> => r.buffer = <<>>

C34_Witness ==
    /\ pushed = <<27, 79, 80>>
    /\ Len(emitted) = 1
    /\ emitted[1].bytes = <<27, 79, 80>>
    /\ emitted[1].kind = "ready"
    /\ buffer = <<>>
    /\ ready = <<>>

\* C35: whatever byte is pushed next, a length that try_extract_event returns
\* for the pending buffer with that byte appended is at least 1 and at most the
\* length of that buffer, so `drain(..len)` is in range and removes a byte.
C35_ExtractionInRange ==
    \A b \in SegBytes :
        LET buf == Append(buffer, b)
            len == try_extract_event(buf)
        IN  /\ len # <<>> => (1 <= len[1] /\ len[1] <= Len(buf))
            /\ try_extract_event(buffer) = <<>>

C35_Witness ==
    /\ pushed = <<27, 224, 128, 191>>
    /\ ready = <<pushed>>
    /\ buffer = <<>>

\* C36: while the pending buffer is not empty, last_byte_at is present and
\* holds the time of the latest append to the buffer, so the buffer is
\* flushable as soon as the flush timeout has passed since that append.
C36_FlushDeadlineDefined ==
    buffer # <<>> =>
        /\ last_byte_at # <<>>
        /\ last_byte_at[1] = Min(since_append, FLUSH_TIMEOUT)
        /\ since_append >= FLUSH_TIMEOUT => should_flush_pending(last_byte_at)

C36_Witness ==
    /\ buffer = <<27, 91>>
    /\ since_append >= FLUSH_TIMEOUT
    /\ should_flush_pending(last_byte_at)

\* C37: after push_byte a pending buffer that is not empty starts with ESC, or
\* starts with a UTF-8 lead byte in 0xC0..=0xF7 and is shorter than the width
\* of that lead (at most 3 bytes); a byte below 0x80 other than ESC is never
\* the first pending byte.
C37_PendingShape ==
    buffer # <<>> =>
        \/ buffer[1] = ESC
        \/ /\ buffer[1] \in 192..247
           /\ Len(buffer) < utf8_char_width(buffer[1])
           /\ Len(buffer) <= 3

C37_Witness ==
    /\ buffer = <<240, 128, 191>>
    /\ pushed = buffer
    /\ ready = <<>>

\* C38: at most one of interpret_csi_sequence, interpret_ss3_sequence and
\* interpret_alt_sequence returns an interpretation for a span.
C38_EscapeInterpretationsExclusive ==
    span # <<>> =>
        LET results == <<interpret_csi_sequence(span), interpret_ss3_sequence(span),
                         interpret_alt_sequence(span)>>
        IN  Cardinality({k \in 1..3 : results[k] # <<>>}) <= 1

C38_Witness ==
    /\ span = <<27, 91, 65>>
    /\ info # <<>>
    /\ interpret_csi_sequence(span) # <<>>
    /\ interpret_ss3_sequence(span) = <<>>
    /\ interpret_alt_sequence(span) = <<>>

\* the duration is i32::MAX ms or longer
AtLeastMaxMs ==
    \/ poll_duration.secs > 2147483
    \/ poll_duration.secs = 2147483 /\ poll_duration.nanos >= 647000000

\* C39: duration_to_poll_timeout(d) lies in 0..=2147483647, is the whole
\* milliseconds of d (rounded down) or 2147483647 if those are more, and is 0
\* exactly when d is shorter than 1 ms.
C39_PollTimeoutConversion ==
    /\ 0 <= poll_timeout_ms /\ poll_timeout_ms <= 2147483647
    /\ AtLeastMaxMs => poll_timeout_ms = 2147483647
    /\ ~AtLeastMaxMs =>
           /\ poll_timeout_ms \div 1000 = poll_duration.secs
           /\ poll_timeout_ms % 1000 = poll_duration.nanos \div 1000000
    /\ poll_timeout_ms = 0 <=> (poll_duration.secs = 0 /\ poll_duration.nanos < 1000000)

C39_Witness ==
    /\ poll_duration = [secs |-> 2147483, nanos |-> 646999999]
    /\ poll_timeout_ms = 2147483646

====
